---- MODULE Spec2Model ----
(***************************************************************************)
(* A model of the logic-gate simulator: the identifier allocator (id.rs),  *)
(* the gate model (logic_gate.rs), the composite circuit and its           *)
(* synchronous step (logic_gate_map.rs) and the version-0 document parser  *)
(* (parse.rs).                                                             *)
(*                                                                         *)
(* Rust values are represented as follows.                                 *)
(*   Id(n)                 the natural number n                            *)
(*   HashMap<K, V>         a function with domain the set of keys          *)
(*   (Id, bool)            the pair <<id, value>>                          *)
(*   ConnectionPoint       [type, gate, id]  (gate = NoGate for the three  *)
(*                         variants that carry a single Id)                *)
(*   LogicGate::Nand       [kind |-> "Nand", inputs, output]               *)
(*   LogicGate::Custom(m)  [kind |-> "Custom", map |-> m]                  *)
(*   Vec<T>                a sequence (Rust index k is TLA+ index k + 1)   *)
(***************************************************************************)
EXTENDS Integers, Sequences, FiniteSets, TLC

\* ------------------------------------------------------------------------
\* Generic helpers
\* ------------------------------------------------------------------------

\* HashMap::new()
EmptyMap == <<>>

\* HashMap::insert(k, v): adds the key or replaces its value
Insert(m, k, v) == [x \in (DOMAIN m) \cup {k} |-> IF x = k THEN v ELSE m[x]]

\* Let(v, F) is F(v), with v evaluated once before F is applied to it
Let(v, F(_)) == CHOOSE r \in {F(x) : x \in {v}} : TRUE

\* the elements of a finite set of numbers in ascending order
SortedSeq(S) ==
    Let(S, LAMBDA T : [i \in 1..Cardinality(T) |->
                          CHOOSE x \in T : Cardinality({y \in T : y < x}) = i - 1])

\* Vec::sort on a vector of Ids
SortIds(v) == SortSeq(v, LAMBDA a, b : a < b)

\* every ordering of the elements of a finite set
Perms(S) == {p \in [1..Cardinality(S) -> S] : \A x \in S : \E i \in DOMAIN p : p[i] = x}

\* ------------------------------------------------------------------------
\* logic_gate.rs: connection points, connections, gates
\* ------------------------------------------------------------------------

NoGate == -1

Input(id) == [type |-> "Input", gate |-> NoGate, id |-> id]
Output(id) == [type |-> "Output", gate |-> NoGate, id |-> id]
MiddleSignal(id) == [type |-> "MiddleSignal", gate |-> NoGate, id |-> id]
GateInput(gate, input) == [type |-> "GateInput", gate |-> gate, id |-> input]
GateOutput(gate, output) == [type |-> "GateOutput", gate |-> gate, id |-> output]

Connection(start, end) == [start |-> start, end |-> end]

Nand(ins, out) == [kind |-> "Nand", inputs |-> ins, output |-> out]
Custom(map) == [kind |-> "Custom", map |-> map]

\* GateCreationInfo::new: the slot lists are kept sorted
GateCreationInfo_new(gate_id, ins, outs) ==
    [gate_id |-> gate_id, inputs |-> SortIds(ins), outputs |-> SortIds(outs)]

\* GateCreationInfo::input_connection(index), index 0-based
input_connection(info, index) == GateInput(info.gate_id, info.inputs[index + 1])
\* GateCreationInfo::output_connection(index), index 0-based
output_connection(info, index) == GateOutput(info.gate_id, info.outputs[index + 1])
\* GateCreationInfo::input_count / output_count
info_input_count(info) == Len(info.inputs)
info_output_count(info) == Len(info.outputs)

\* ------------------------------------------------------------------------
\* logic_gate_map.rs: the composite circuit
\* ------------------------------------------------------------------------

\* IdGenerator::new
IdGenerator_new == 0

\* LogicGateMap::empty()
empty ==
    [inputs |-> EmptyMap, outputs |-> EmptyMap, middle_signals |-> EmptyMap,
     gates |-> EmptyMap, connections |-> EmptyMap, id_generator |-> IdGenerator_new]

\* mutant of IdGenerator::generate: the incremented counter is returned
IdGenerator_generate_incremented(self) == [inner |-> self + 1, ret |-> self + 1]

\* IdGenerator::generate: increments the counter and returns its old value
IdGenerator_generate(self) == [inner |-> self + 1, ret |-> self]

\* self.id_generator.generate() on a circuit
generate(self) ==
    [map |-> [self EXCEPT !.id_generator = IdGenerator_generate(@).inner],
     ret |-> IdGenerator_generate(self.id_generator).ret]

\* LogicGateMap::create_input
create_input(self) ==
    LET g == generate(self)
    IN [map |-> [g.map EXCEPT !.inputs = Insert(@, g.ret, FALSE)], ret |-> g.ret]

\* LogicGateMap::create_output
create_output(self) ==
    LET g == generate(self)
    IN [map |-> [g.map EXCEPT !.outputs = Insert(@, g.ret, FALSE)], ret |-> g.ret]

\* LogicGateMap::create_nand_gate: four fresh ids (gate, in1, in2, out);
\* the inputs start FALSE and the output starts TRUE
create_nand_gate(self) ==
    LET id == self.id_generator
        i1 == id + 1
        i2 == id + 2
        q  == id + 3
        gate == Nand(<< <<i1, FALSE>>, <<i2, FALSE>> >>, <<q, TRUE>>)
    IN [map |-> [self EXCEPT !.id_generator = id + 4,
                             !.gates = Insert(@, id, gate)],
        ret |-> GateCreationInfo_new(id, <<i1, i2>>, <<q>>)]

\* LogicGateMap::create_custom_gate: the inner circuit is moved into the gate
create_custom_gate(self, gate) ==
    LET id == self.id_generator
    IN [map |-> [self EXCEPT !.id_generator = id + 1,
                             !.gates = Insert(@, id, Custom(gate))],
        ret |-> GateCreationInfo_new(id, SortedSeq(DOMAIN gate.inputs),
                                     SortedSeq(DOMAIN gate.outputs))]

\* LogicGateMap::create_connection: no validation of the two endpoints
create_connection(self, start, end) ==
    LET id == self.id_generator
    IN [map |-> [self EXCEPT !.id_generator = id + 1,
                             !.connections = Insert(@, id, Connection(start, end))],
        ret |-> id]

\* LogicGate::get_input: "None" when a Nand has no such input slot.
\* A Custom gate indexes its inner inputs map (a missing key aborts, see
\* CanRead).
LogicGate_get_input(self, id) ==
    IF self.kind = "Nand"
    THEN IF id = self.inputs[1][1] THEN <<"Some", self.inputs[1][2]>>
         ELSE IF id = self.inputs[2][1] THEN <<"Some", self.inputs[2][2]>>
         ELSE <<"None">>
    ELSE <<"Some", self.map.inputs[id]>>

\* LogicGate::get_output
LogicGate_get_output(self, id) ==
    IF self.kind = "Nand"
    THEN IF id = self.output[1] THEN <<"Some", self.output[2]>> ELSE <<"None">>
    ELSE <<"Some", self.map.outputs[id]>>

\* LogicGateMap::set_input / set_output: HashMap::insert
LogicGateMap_set_input(self, id, v) == [self EXCEPT !.inputs = Insert(@, id, v)]
LogicGateMap_set_output(self, id, v) == [self EXCEPT !.outputs = Insert(@, id, v)]

\* LogicGate::set_input: first matching Nand slot, or the inner inputs map
LogicGate_set_input(self, id, new_value) ==
    IF self.kind = "Nand"
    THEN IF id = self.inputs[1][1] THEN [self EXCEPT !.inputs[1][2] = new_value]
         ELSE IF id = self.inputs[2][1] THEN [self EXCEPT !.inputs[2][2] = new_value]
         ELSE self
    ELSE Custom(LogicGateMap_set_input(self.map, id, new_value))

\* mutant of LogicGate::set_output: a Nand output slot cannot be overwritten
LogicGate_set_output_ignored(self, id, new_value) ==
    IF self.kind = "Nand"
    THEN self
    ELSE Custom(LogicGateMap_set_output(self.map, id, new_value))

\* LogicGate::set_output
LogicGate_set_output(self, id, new_value) ==
    IF self.kind = "Nand"
    THEN IF id = self.output[1] THEN [self EXCEPT !.output[2] = new_value] ELSE self
    ELSE Custom(LogicGateMap_set_output(self.map, id, new_value))

\* LogicGate::get_input aborts: input_by_id indexes the inner inputs map of a
\* Custom gate, and indexing a HashMap with a missing key panics
LogicGate_get_input_panics(self, id) ==
    self.kind = "Custom" /\ id \notin DOMAIN self.map.inputs

\* LogicGate::get_output aborts: output_by_id indexes the inner outputs map
LogicGate_get_output_panics(self, id) ==
    self.kind = "Custom" /\ id \notin DOMAIN self.map.outputs

\* the 0-based position of x in seq (enumerate().find())
IndexOf(seq, x) == (CHOOSE i \in 1..Len(seq) : seq[i] = x) - 1

\* LogicGate::get_input_index aborts: expect on a find() that found nothing
LogicGate_get_input_index_panics(self, id) ==
    self.kind = "Custom" /\ id \notin DOMAIN self.map.inputs

\* LogicGate::get_input_index: a Nand answers 0 for its first input id and 1
\* for every other id; a Custom gate answers the position among its sorted
\* input ids
LogicGate_get_input_index(self, id) ==
    IF self.kind = "Nand"
    THEN IF id = self.inputs[1][1] THEN 0 ELSE 1
    ELSE IndexOf(SortedSeq(DOMAIN self.map.inputs), id)

\* LogicGate::get_output_index aborts
LogicGate_get_output_index_panics(self, id) ==
    self.kind = "Custom" /\ id \notin DOMAIN self.map.outputs

\* LogicGate::get_output_index: a Nand answers 0 for every id
LogicGate_get_output_index(self, id) ==
    IF self.kind = "Nand"
    THEN 0
    ELSE IndexOf(SortedSeq(DOMAIN self.map.outputs), id)

\* LogicGate::input_count / output_count
LogicGate_input_count(self) ==
    IF self.kind = "Nand" THEN 2 ELSE Cardinality(DOMAIN self.map.inputs)
LogicGate_output_count(self) ==
    IF self.kind = "Nand" THEN 1 ELSE Cardinality(DOMAIN self.map.outputs)

\* connection_point_value aborts (index of a missing key, or expect on None)
\* exactly when CanRead is false
CanRead(self, cp) ==
    CASE cp.type = "Input" -> cp.id \in DOMAIN self.inputs
      [] cp.type = "Output" -> cp.id \in DOMAIN self.outputs
      [] cp.type = "MiddleSignal" -> cp.id \in DOMAIN self.middle_signals
      [] cp.type = "GateInput" ->
            /\ cp.gate \in DOMAIN self.gates
            /\ LET g == self.gates[cp.gate]
               IN IF g.kind = "Nand" THEN LogicGate_get_input(g, cp.id)[1] = "Some"
                  ELSE cp.id \in DOMAIN g.map.inputs
      [] cp.type = "GateOutput" ->
            /\ cp.gate \in DOMAIN self.gates
            /\ LET g == self.gates[cp.gate]
               IN IF g.kind = "Nand" THEN LogicGate_get_output(g, cp.id)[1] = "Some"
                  ELSE cp.id \in DOMAIN g.map.outputs

\* LogicGateMap::connection_point_value
connection_point_value(self, cp) ==
    CASE cp.type = "GateInput" -> LogicGate_get_input(self.gates[cp.gate], cp.id)[2]
      [] cp.type = "GateOutput" -> LogicGate_get_output(self.gates[cp.gate], cp.id)[2]
      [] cp.type = "Input" -> self.inputs[cp.id]
      [] cp.type = "Output" -> self.outputs[cp.id]
      [] cp.type = "MiddleSignal" -> self.middle_signals[cp.id]

\* mutant of the match on *end: a circuit input, output or middle signal
\* that already holds TRUE keeps it
WriteEnd_merge(new_map, end, input_value) ==
    CASE end.type = "Input" ->
            [new_map EXCEPT !.inputs =
                Insert(@, end.id, input_value \/ (end.id \in DOMAIN @ /\ @[end.id]))]
      [] end.type = "Output" ->
            [new_map EXCEPT !.outputs =
                Insert(@, end.id, input_value \/ (end.id \in DOMAIN @ /\ @[end.id]))]
      [] end.type = "MiddleSignal" ->
            [new_map EXCEPT !.middle_signals =
                Insert(@, end.id, input_value \/ (end.id \in DOMAIN @ /\ @[end.id]))]
      [] end.type = "GateInput" ->
            [new_map EXCEPT !.gates[end.gate] = LogicGate_set_input(@, end.id, input_value)]
      [] end.type = "GateOutput" ->
            [new_map EXCEPT !.gates[end.gate] = LogicGate_set_output(@, end.id, input_value)]

\* mutant of the match on *end: a write into a custom gate also reaches every
\* other custom gate whose inner circuit has the same ids, as if the
\* instances of one definition shared their inner circuit
WriteEnd_sharedDefinition(new_map, end, input_value) ==
    CASE end.type = "Input" -> [new_map EXCEPT !.inputs = Insert(@, end.id, input_value)]
      [] end.type = "Output" -> [new_map EXCEPT !.outputs = Insert(@, end.id, input_value)]
      [] end.type = "MiddleSignal" ->
            [new_map EXCEPT !.middle_signals = Insert(@, end.id, input_value)]
      [] end.type = "GateInput" ->
            [new_map EXCEPT !.gates = [h \in DOMAIN @ |->
                IF \/ h = end.gate
                   \/ /\ @[h].kind = "Custom" /\ @[end.gate].kind = "Custom"
                      /\ DOMAIN @[h].map.inputs = DOMAIN @[end.gate].map.inputs
                THEN LogicGate_set_input(@[h], end.id, input_value)
                ELSE @[h]]]
      [] end.type = "GateOutput" ->
            [new_map EXCEPT !.gates = [h \in DOMAIN @ |->
                IF \/ h = end.gate
                   \/ /\ @[h].kind = "Custom" /\ @[end.gate].kind = "Custom"
                      /\ DOMAIN @[h].map.outputs = DOMAIN @[end.gate].map.outputs
                THEN LogicGate_set_output(@[h], end.id, input_value)
                ELSE @[h]]]

\* the match on *end in LogicGateMap::step: one write into the new circuit
WriteEnd(new_map, end, input_value) ==
    CASE end.type = "Input" -> [new_map EXCEPT !.inputs = Insert(@, end.id, input_value)]
      [] end.type = "Output" -> [new_map EXCEPT !.outputs = Insert(@, end.id, input_value)]
      [] end.type = "MiddleSignal" ->
            [new_map EXCEPT !.middle_signals = Insert(@, end.id, input_value)]
      [] end.type = "GateInput" ->
            [new_map EXCEPT !.gates[end.gate] = LogicGate_set_input(@, end.id, input_value)]
      [] end.type = "GateOutput" ->
            [new_map EXCEPT !.gates[end.gate] = LogicGate_set_output(@, end.id, input_value)]

RECURSIVE ApplyConnections_onePhase(_, _, _)
\* mutant of the connection loop: each start is read in the circuit being
\* written, so a value written earlier in the same step is visible
ApplyConnections_onePhase(self, new_map, order) ==
    IF order = <<>> THEN new_map
    ELSE LET c == self.connections[Head(order)]
         IN ApplyConnections_onePhase(self,
                WriteEnd(new_map, c.end, connection_point_value(new_map, c.start)),
                Tail(order))

RECURSIVE ApplyConnections(_, _, _)
\* the connection loop of LogicGateMap::step, visiting the connections in
\* the given order: each reads its start in self and writes its end in
\* new_map
ApplyConnections(self, new_map, order) ==
    IF order = <<>> THEN new_map
    ELSE LET c == self.connections[Head(order)]
         IN ApplyConnections(self,
                             WriteEnd(new_map, c.end, connection_point_value(self, c.start)),
                             Tail(order))

\* ids of the connections whose end is also the end of another connection
Colliding(self) ==
    {c \in DOMAIN self.connections :
        \E d \in DOMAIN self.connections :
            d # c /\ self.connections[d].end = self.connections[c].end}

\* The iteration orders of self.connections.values() that can give different
\* results.  Writes to different ends touch different slots, so only the
\* relative order of the connections that share an end matters: those are
\* taken in every order, after the others.
Orders(self) ==
    {SortedSeq(DOMAIN self.connections \ Colliding(self)) \o p : p \in Perms(Colliding(self))}

\* a call of step() on an empty circuit or on a Nand gate iterates over no
\* connections
NoVisit == [order |-> <<>>, gates |-> EmptyMap]

RECURSIVE Visits(_)
RECURSIVE GateVisits(_, _)

\* the ways one call of LogicGate::step can go: a Custom gate calls the
\* step() of its inner circuit
LogicGate_visits(self) ==
    IF self.kind = "Nand" THEN {NoVisit} ELSE Visits(self.map)

\* for the gates with the given ids, every choice of one way per gate
GateVisits(self, ids) ==
    Let(ids, LAMBDA todo :
        IF todo = <<>> THEN {EmptyMap}
        ELSE {Insert(f, Head(todo), v) :
                 f \in GateVisits(self, Tail(todo)),
                 v \in LogicGate_visits(self.gates[Head(todo)])})

\* The ways one call of LogicGateMap::step can go: the order in which this
\* circuit's connections are visited and, for every gate, the way its own
\* step() goes (each inner circuit iterates over its own HashMap).
Visits(self) ==
    Let(self, LAMBDA circuit :
        {[order |-> o, gates |-> f] :
            o \in Orders(circuit),
            f \in GateVisits(circuit, SortedSeq(DOMAIN circuit.gates))})

RECURSIVE LogicGateMap_step_in(_, _)

\* mutant of LogicGate::step: the Nand output is computed as AND
LogicGate_step_and(self, visit) ==
    IF self.kind = "Nand"
    THEN Nand(<< <<self.inputs[1][1], self.inputs[1][2]>>,
                 <<self.inputs[2][1], self.inputs[2][2]>> >>,
              <<self.output[1], self.inputs[1][2] /\ self.inputs[2][2]>>)
    ELSE Custom(LogicGateMap_step_in(self.map, visit))

\* mutant of LogicGate::step: the new Nand lists its two input slots in the
\* opposite order
LogicGate_step_swapSlots(self, visit) ==
    IF self.kind = "Nand"
    THEN Nand(<< <<self.inputs[2][1], self.inputs[2][2]>>,
                 <<self.inputs[1][1], self.inputs[1][2]>> >>,
              <<self.output[1], ~(self.inputs[1][2] /\ self.inputs[2][2])>>)
    ELSE Custom(LogicGateMap_step_in(self.map, visit))

\* LogicGate::step going the given way: a Nand computes its output from its
\* input slots, a Custom gate calls the step() of its inner circuit
LogicGate_step(self, visit) ==
    IF self.kind = "Nand"
    THEN Nand(<< <<self.inputs[1][1], self.inputs[1][2]>>,
                 <<self.inputs[2][1], self.inputs[2][2]>> >>,
              <<self.output[1], ~(self.inputs[1][2] /\ self.inputs[2][2])>>)
    ELSE Custom(LogicGateMap_step_in(self.map, visit))

\* mutant of LogicGateMap::step: the clone starts with every circuit input
\* FALSE
LogicGateMap_step_in_clearInputs(self, visit) ==
    Let(visit, LAMBDA way :
    LET stepped == [self EXCEPT !.gates = [id \in DOMAIN self.gates |->
                                              LogicGate_step(self.gates[id], way.gates[id])],
                                !.inputs = [i \in DOMAIN self.inputs |-> FALSE]]
    IN ApplyConnections(self, stepped, way.order))

\* LogicGateMap::step going the given way: clone, step every gate of the old
\* circuit, then run the connection loop in the order of the visit
LogicGateMap_step_in(self, visit) ==
    Let(visit, LAMBDA way :
    LET stepped == [self EXCEPT !.gates = [id \in DOMAIN self.gates |->
                                              LogicGate_step(self.gates[id], way.gates[id])]]
    IN ApplyConnections(self, stepped, way.order))

RECURSIVE GateAfterStep(_, _, _, _)
\* what LogicGateMap::step makes of the gate with id g alone: new_gate is its
\* own step(), and of the connections, visited in the given order, only
\* those whose end is GateInput{g, _} or GateOutput{g, _} write into it
GateAfterStep(self, g, new_gate, order) ==
    IF order = <<>> THEN new_gate
    ELSE LET c == self.connections[Head(order)]
             written ==
                 IF c.end.type = "GateInput" /\ c.end.gate = g
                 THEN LogicGate_set_input(new_gate, c.end.id,
                                          connection_point_value(self, c.start))
                 ELSE IF c.end.type = "GateOutput" /\ c.end.gate = g
                 THEN LogicGate_set_output(new_gate, c.end.id,
                                           connection_point_value(self, c.start))
                 ELSE new_gate
         IN GateAfterStep(self, g, written, Tail(order))

\* LogicGateMap::step: the circuits one call can return
LogicGateMap_step(self) == {LogicGateMap_step_in(self, visit) : visit \in Visits(self)}

RECURSIVE step_panics(_)
\* LogicGateMap::step aborts: a start that cannot be read, an end that names
\* a missing gate, or an inner circuit whose own step aborts
step_panics(self) ==
    \/ \E g \in DOMAIN self.gates :
          self.gates[g].kind = "Custom" /\ step_panics(self.gates[g].map)
    \/ \E c \in DOMAIN self.connections :
          LET conn == self.connections[c]
          IN \/ ~CanRead(self, conn.start)
             \/ /\ conn.end.type \in {"GateInput", "GateOutput"}
                /\ conn.end.gate \notin DOMAIN self.gates

\* ------------------------------------------------------------------------
\* logic_gate_map.rs: the standard gate library (the gate! macro creates the
\* inputs, then the nands, then the custom gates, then the outputs, then the
\* connections, in the order written)
\* ------------------------------------------------------------------------

\* mutant of not_gate: the input drives only the first Nand input
not_gate_oneInput ==
    Let(create_input(empty), LAMBDA r1 :
    Let(Input(r1.ret), LAMBDA i :
    Let(create_nand_gate(r1.map), LAMBDA r2 :
    Let(r2.ret, LAMBDA nand :
    Let(create_output(r2.map), LAMBDA r3 :
    Let(Output(r3.ret), LAMBDA q :
    Let(create_connection(r3.map, i, input_connection(nand, 0)).map, LAMBDA c1 :
    create_connection(c1, output_connection(nand, 0), q).map)))))))

\* LogicGateMap::not_gate
not_gate ==
    Let(create_input(empty), LAMBDA r1 :
    Let(Input(r1.ret), LAMBDA i :
    Let(create_nand_gate(r1.map), LAMBDA r2 :
    Let(r2.ret, LAMBDA nand :
    Let(create_output(r2.map), LAMBDA r3 :
    Let(Output(r3.ret), LAMBDA q :
    Let(create_connection(r3.map, i, input_connection(nand, 0)).map, LAMBDA c1 :
    Let(create_connection(c1, i, input_connection(nand, 1)).map, LAMBDA c2 :
    create_connection(c2, output_connection(nand, 0), q).map))))))))

\* mutant of and_gate: the inverting Nand is left out of the path to q
and_gate_noInverter ==
    Let(create_input(empty), LAMBDA r1 :
    Let(Input(r1.ret), LAMBDA i1 :
    Let(create_input(r1.map), LAMBDA r2 :
    Let(Input(r2.ret), LAMBDA i2 :
    Let(create_nand_gate(r2.map), LAMBDA r3 :
    Let(r3.ret, LAMBDA nand :
    Let(create_nand_gate(r3.map), LAMBDA r4 :
    Let(r4.ret, LAMBDA not :
    Let(create_output(r4.map), LAMBDA r5 :
    Let(Output(r5.ret), LAMBDA q :
    Let(create_connection(r5.map, i1, input_connection(nand, 0)).map, LAMBDA c1 :
    Let(create_connection(c1, i2, input_connection(nand, 1)).map, LAMBDA c2 :
    Let(create_connection(c2, output_connection(nand, 0), input_connection(not, 0)).map, LAMBDA c3 :
    Let(create_connection(c3, output_connection(nand, 0), input_connection(not, 1)).map, LAMBDA c4 :
    create_connection(c4, output_connection(nand, 0), q).map))))))))))))))

\* LogicGateMap::and_gate
and_gate ==
    Let(create_input(empty), LAMBDA r1 :
    Let(Input(r1.ret), LAMBDA i1 :
    Let(create_input(r1.map), LAMBDA r2 :
    Let(Input(r2.ret), LAMBDA i2 :
    Let(create_nand_gate(r2.map), LAMBDA r3 :
    Let(r3.ret, LAMBDA nand :
    Let(create_nand_gate(r3.map), LAMBDA r4 :
    Let(r4.ret, LAMBDA not :
    Let(create_output(r4.map), LAMBDA r5 :
    Let(Output(r5.ret), LAMBDA q :
    Let(create_connection(r5.map, i1, input_connection(nand, 0)).map, LAMBDA c1 :
    Let(create_connection(c1, i2, input_connection(nand, 1)).map, LAMBDA c2 :
    Let(create_connection(c2, output_connection(nand, 0), input_connection(not, 0)).map, LAMBDA c3 :
    Let(create_connection(c3, output_connection(nand, 0), input_connection(not, 1)).map, LAMBDA c4 :
    create_connection(c4, output_connection(not, 0), q).map))))))))))))))

\* LogicGateMap::or_gate
or_gate ==
    Let(create_input(empty), LAMBDA r1 :
    Let(Input(r1.ret), LAMBDA a :
    Let(create_input(r1.map), LAMBDA r2 :
    Let(Input(r2.ret), LAMBDA b :
    Let(create_nand_gate(r2.map), LAMBDA r3 :
    Let(r3.ret, LAMBDA nand :
    Let(create_custom_gate(r3.map, not_gate), LAMBDA r4 :
    Let(r4.ret, LAMBDA not_a :
    Let(create_custom_gate(r4.map, not_gate), LAMBDA r5 :
    Let(r5.ret, LAMBDA not_b :
    Let(create_output(r5.map), LAMBDA r6 :
    Let(Output(r6.ret), LAMBDA q :
    Let(create_connection(r6.map, a, input_connection(not_a, 0)).map, LAMBDA c1 :
    Let(create_connection(c1, b, input_connection(not_b, 0)).map, LAMBDA c2 :
    Let(create_connection(c2, output_connection(not_a, 0), input_connection(nand, 0)).map, LAMBDA c3 :
    Let(create_connection(c3, output_connection(not_b, 0), input_connection(nand, 1)).map, LAMBDA c4 :
    create_connection(c4, output_connection(nand, 0), q).map))))))))))))))))

\* mutant of nor_gate: an or_gate followed by a not_gate
nor_gate_orThenNot ==
    Let(create_input(empty), LAMBDA r1 :
    Let(Input(r1.ret), LAMBDA a :
    Let(create_input(r1.map), LAMBDA r2 :
    Let(Input(r2.ret), LAMBDA b :
    Let(create_custom_gate(r2.map, or_gate), LAMBDA r3 :
    Let(r3.ret, LAMBDA or :
    Let(create_custom_gate(r3.map, not_gate), LAMBDA r4 :
    Let(r4.ret, LAMBDA not :
    Let(create_output(r4.map), LAMBDA r5 :
    Let(Output(r5.ret), LAMBDA q :
    Let(create_connection(r5.map, a, input_connection(or, 0)).map, LAMBDA c1 :
    Let(create_connection(c1, b, input_connection(or, 1)).map, LAMBDA c2 :
    Let(create_connection(c2, output_connection(or, 0), input_connection(not, 0)).map, LAMBDA c3 :
    create_connection(c3, output_connection(not, 0), q).map)))))))))))))

\* LogicGateMap::nor_gate
nor_gate ==
    Let(create_input(empty), LAMBDA r1 :
    Let(Input(r1.ret), LAMBDA a :
    Let(create_input(r1.map), LAMBDA r2 :
    Let(Input(r2.ret), LAMBDA b :
    Let(create_custom_gate(r2.map, not_gate), LAMBDA r3 :
    Let(r3.ret, LAMBDA not_a :
    Let(create_custom_gate(r3.map, not_gate), LAMBDA r4 :
    Let(r4.ret, LAMBDA not_b :
    Let(create_custom_gate(r4.map, and_gate), LAMBDA r5 :
    Let(r5.ret, LAMBDA and :
    Let(create_output(r5.map), LAMBDA r6 :
    Let(Output(r6.ret), LAMBDA q :
    Let(create_connection(r6.map, a, input_connection(not_a, 0)).map, LAMBDA c1 :
    Let(create_connection(c1, b, input_connection(not_b, 0)).map, LAMBDA c2 :
    Let(create_connection(c2, output_connection(not_a, 0), input_connection(and, 0)).map, LAMBDA c3 :
    Let(create_connection(c3, output_connection(not_b, 0), input_connection(and, 1)).map, LAMBDA c4 :
    create_connection(c4, output_connection(and, 0), q).map))))))))))))))))

\* mutant of sr_latch: the first input of nor_b is fed by set instead of
\* nor_a
sr_latch_uncoupled ==
    Let(create_input(empty), LAMBDA r1 :
    Let(Input(r1.ret), LAMBDA set :
    Let(create_input(r1.map), LAMBDA r2 :
    Let(Input(r2.ret), LAMBDA reset :
    Let(create_custom_gate(r2.map, nor_gate), LAMBDA r3 :
    Let(r3.ret, LAMBDA nor_a :
    Let(create_custom_gate(r3.map, nor_gate), LAMBDA r4 :
    Let(r4.ret, LAMBDA nor_b :
    Let(create_output(r4.map), LAMBDA r5 :
    Let(Output(r5.ret), LAMBDA q :
    Let(create_output(r5.map), LAMBDA r6 :
    Let(Output(r6.ret), LAMBDA not_q :
    Let(create_connection(r6.map, set, input_connection(nor_a, 0)).map, LAMBDA c1 :
    Let(create_connection(c1, reset, input_connection(nor_b, 1)).map, LAMBDA c2 :
    Let(create_connection(c2, set, input_connection(nor_b, 0)).map, LAMBDA c3 :
    Let(create_connection(c3, output_connection(nor_b, 0), input_connection(nor_a, 1)).map, LAMBDA c4 :
    Let(create_connection(c4, output_connection(nor_a, 0), q).map, LAMBDA c5 :
    create_connection(c5, output_connection(nor_b, 0), not_q).map)))))))))))))))))

\* LogicGateMap::sr_latch
sr_latch ==
    Let(create_input(empty), LAMBDA r1 :
    Let(Input(r1.ret), LAMBDA set :
    Let(create_input(r1.map), LAMBDA r2 :
    Let(Input(r2.ret), LAMBDA reset :
    Let(create_custom_gate(r2.map, nor_gate), LAMBDA r3 :
    Let(r3.ret, LAMBDA nor_a :
    Let(create_custom_gate(r3.map, nor_gate), LAMBDA r4 :
    Let(r4.ret, LAMBDA nor_b :
    Let(create_output(r4.map), LAMBDA r5 :
    Let(Output(r5.ret), LAMBDA q :
    Let(create_output(r5.map), LAMBDA r6 :
    Let(Output(r6.ret), LAMBDA not_q :
    Let(create_connection(r6.map, set, input_connection(nor_a, 0)).map, LAMBDA c1 :
    Let(create_connection(c1, reset, input_connection(nor_b, 1)).map, LAMBDA c2 :
    Let(create_connection(c2, output_connection(nor_a, 0), input_connection(nor_b, 0)).map, LAMBDA c3 :
    Let(create_connection(c3, output_connection(nor_b, 0), input_connection(nor_a, 1)).map, LAMBDA c4 :
    Let(create_connection(c4, output_connection(nor_a, 0), q).map, LAMBDA c5 :
    create_connection(c5, output_connection(nor_b, 0), not_q).map)))))))))))))))))

\* mutant of d_latch: set_and drives the latch's first input and reset_and
\* its second
d_latch_uncrossed ==
    Let(create_input(empty), LAMBDA r1 :
    Let(Input(r1.ret), LAMBDA data :
    Let(create_input(r1.map), LAMBDA r2 :
    Let(Input(r2.ret), LAMBDA enable :
    Let(create_custom_gate(r2.map, and_gate), LAMBDA r3 :
    Let(r3.ret, LAMBDA reset_and :
    Let(create_custom_gate(r3.map, and_gate), LAMBDA r4 :
    Let(r4.ret, LAMBDA set_and :
    Let(create_custom_gate(r4.map, not_gate), LAMBDA r5 :
    Let(r5.ret, LAMBDA reset_not :
    Let(create_custom_gate(r5.map, sr_latch), LAMBDA r6 :
    Let(r6.ret, LAMBDA latch :
    Let(create_output(r6.map), LAMBDA r7 :
    Let(Output(r7.ret), LAMBDA q :
    Let(create_connection(r7.map, data, input_connection(reset_not, 0)).map, LAMBDA c1 :
    Let(create_connection(c1, output_connection(reset_not, 0), input_connection(reset_and, 0)).map, LAMBDA c2 :
    Let(create_connection(c2, data, input_connection(set_and, 0)).map, LAMBDA c3 :
    Let(create_connection(c3, enable, input_connection(reset_and, 1)).map, LAMBDA c4 :
    Let(create_connection(c4, enable, input_connection(set_and, 1)).map, LAMBDA c5 :
    Let(create_connection(c5, output_connection(set_and, 0), input_connection(latch, 0)).map, LAMBDA c6 :
    Let(create_connection(c6, output_connection(reset_and, 0), input_connection(latch, 1)).map, LAMBDA c7 :
    create_connection(c7, output_connection(latch, 0), q).map)))))))))))))))))))))

\* LogicGateMap::d_latch
d_latch ==
    Let(create_input(empty), LAMBDA r1 :
    Let(Input(r1.ret), LAMBDA data :
    Let(create_input(r1.map), LAMBDA r2 :
    Let(Input(r2.ret), LAMBDA enable :
    Let(create_custom_gate(r2.map, and_gate), LAMBDA r3 :
    Let(r3.ret, LAMBDA reset_and :
    Let(create_custom_gate(r3.map, and_gate), LAMBDA r4 :
    Let(r4.ret, LAMBDA set_and :
    Let(create_custom_gate(r4.map, not_gate), LAMBDA r5 :
    Let(r5.ret, LAMBDA reset_not :
    Let(create_custom_gate(r5.map, sr_latch), LAMBDA r6 :
    Let(r6.ret, LAMBDA latch :
    Let(create_output(r6.map), LAMBDA r7 :
    Let(Output(r7.ret), LAMBDA q :
    Let(create_connection(r7.map, data, input_connection(reset_not, 0)).map, LAMBDA c1 :
    Let(create_connection(c1, output_connection(reset_not, 0), input_connection(reset_and, 0)).map, LAMBDA c2 :
    Let(create_connection(c2, data, input_connection(set_and, 0)).map, LAMBDA c3 :
    Let(create_connection(c3, enable, input_connection(reset_and, 1)).map, LAMBDA c4 :
    Let(create_connection(c4, enable, input_connection(set_and, 1)).map, LAMBDA c5 :
    Let(create_connection(c5, output_connection(reset_and, 0), input_connection(latch, 0)).map, LAMBDA c6 :
    Let(create_connection(c6, output_connection(set_and, 0), input_connection(latch, 1)).map, LAMBDA c7 :
    create_connection(c7, output_connection(latch, 0), q).map)))))))))))))))))))))

\* the library constructors by name
Library(kind) ==
    CASE kind = "not_gate" -> not_gate
      [] kind = "and_gate" -> and_gate
      [] kind = "or_gate" -> or_gate
      [] kind = "nor_gate" -> nor_gate
      [] kind = "sr_latch" -> sr_latch
      [] kind = "d_latch" -> d_latch

LibraryKinds == {"not_gate", "and_gate", "or_gate", "nor_gate", "sr_latch", "d_latch"}

\* ------------------------------------------------------------------------
\* parse.rs: the version-0 document parser
\*
\* A line of text is modelled by the sequence of its whitespace-separated
\* tokens; the text is the tokens joined by single spaces, so a line has a
\* directive prefix such as "inputs " exactly when its first token is the
\* keyword and another token follows. The tokens ",", "=" and "=>" stand for
\* the separators ", ", "=" and "=>" of the custom_gates and connections
\* lines and occur only between two other tokens. A name (of a circuit, a
\* port or a gate instance) is the sequence of the tokens it is made of. A
\* blank line is the empty sequence.
\* ------------------------------------------------------------------------

\* str::parse::<usize> on the numeric tokens of the model
NumberTokens == {"0", "1", "2", "3"}
ParseUsize(tok) ==
    CASE tok = "0" -> <<"Ok", 0>>
      [] tok = "1" -> <<"Ok", 1>>
      [] tok = "2" -> <<"Ok", 2>>
      [] tok = "3" -> <<"Ok", 3>>
      [] OTHER -> <<"Err">>

\* line.strip_prefix("<keyword> ") succeeds
HasPrefix(line, keyword) == Len(line) >= 2 /\ line[1] = keyword
\* what strip_prefix leaves: the operands
Operands(line) == Tail(line)

\* str::split(sep) followed by trim and the filter on non-empty pieces
SplitOn(toks, sep) ==
    Let(SortedSeq({i \in 1..Len(toks) : toks[i] = sep}), LAMBDA cuts :
        LET from(k) == IF k = 1 THEN 1 ELSE cuts[k - 1] + 1
            to(k) == IF k = Len(cuts) + 1 THEN Len(toks) ELSE cuts[k] - 1
            pieces == [k \in 1..(Len(cuts) + 1) |-> SubSeq(toks, from(k), to(k))]
        IN SelectSeq(pieces, LAMBDA piece : piece # <<>>))

\* Option
None == <<>>
Some(x) == <<x>>

\* MapRenderSavedState::new
MapRenderSavedState_new ==
    [inputs |-> <<>>, outputs |-> <<>>, middle_signals |-> EmptyMap, gates |-> EmptyMap]
\* MapRenderSavedState::add_input / add_output / add_gate / has_gate
add_input(self, id) == [self EXCEPT !.inputs = Append(@, id)]
add_output(self, id) == [self EXCEPT !.outputs = Append(@, id)]
add_gate(self, id, position, name) ==
    [self EXCEPT !.gates = Insert(@, id, [position |-> position, name |-> name])]
has_gate(self, gate_id) == gate_id \in DOMAIN self.gates
\* Pos2::new(x as f32, y as f32)
Pos2(x, y) == [x |-> x, y |-> y]

\* LogicGateMapParseError
NoError == [kind |-> "NoError"]
MissingVersionLine == [kind |-> "MissingVersionLine"]
InvalidVersionLine(line) == [kind |-> "InvalidVersionLine", line |-> line]
NoCurrentGate(n, line) == [kind |-> "NoCurrentGate", line_number |-> n, line |-> line]
InvalidCustomGate(n, parts, line) ==
    [kind |-> "InvalidCustomGate", line_number |-> n, parts |-> parts, line |-> line]
UnrecognisedCommand(n, line) ==
    [kind |-> "UnrecognisedCommand", line_number |-> n, line |-> line]
InvalidConnectionPoint(n, line, text) ==
    [kind |-> "InvalidConnectionPoint", line_number |-> n, line |-> line, text |-> text]
InvalidRenderLine(n, line) == [kind |-> "InvalidRenderLine", line_number |-> n, line |-> line]

\* the locals of parse_version_0 before the loop
ParserLocals ==
    [results |-> EmptyMap, renderers |-> EmptyMap, current |-> None,
     inputs |-> EmptyMap, outputs |-> EmptyMap, nands |-> EmptyMap,
     custom_gates |-> EmptyMap]

\* the result of one line: the locals after it and the error it returned
Go(st) == [st |-> st, err |-> NoError]
Fail(st, e) == [st |-> st, err |-> e]

parse_version_0_connection_point_anyKeyword(n, line, text, st) ==
    LET parts == text
        bad == <<"Err", InvalidConnectionPoint(n, line, text)>>
    IN CASE Len(parts) = 1 ->
              IF <<parts[1]>> \in DOMAIN st.inputs
              THEN <<"Ok", Input(st.inputs[<<parts[1]>>])>>
              ELSE IF <<parts[1]>> \in DOMAIN st.outputs
              THEN <<"Ok", Output(st.outputs[<<parts[1]>>])>>
              ELSE bad
         [] Len(parts) = 3 ->
              IF ParseUsize(parts[3])[1] # "Ok" THEN bad
              ELSE IF <<parts[1]>> \notin (DOMAIN st.nands) \cup (DOMAIN st.custom_gates)
              THEN bad
              ELSE LET io_index == ParseUsize(parts[3])[2]
                       gate == IF <<parts[1]>> \in DOMAIN st.nands
                               THEN st.nands[<<parts[1]>>]
                               ELSE st.custom_gates[<<parts[1]>>]
                   IN IF parts[2] = "in"
                      THEN IF info_input_count(gate) > io_index
                           THEN <<"Ok", input_connection(gate, io_index)>>
                           ELSE bad
                      ELSE IF info_output_count(gate) > io_index
                           THEN <<"Ok", output_connection(gate, io_index)>>
                           ELSE bad
         [] OTHER -> bad

\* parse_version_0_connection_point: <<"Ok", point>> or <<"Err", error>>
parse_version_0_connection_point(n, line, text, st) ==
    LET parts == text
        bad == <<"Err", InvalidConnectionPoint(n, line, text)>>
    IN CASE Len(parts) = 1 ->
              IF <<parts[1]>> \in DOMAIN st.inputs
              THEN <<"Ok", Input(st.inputs[<<parts[1]>>])>>
              ELSE IF <<parts[1]>> \in DOMAIN st.outputs
              THEN <<"Ok", Output(st.outputs[<<parts[1]>>])>>
              ELSE bad
         [] Len(parts) = 3 ->
              IF parts[2] \notin {"in", "out"} THEN bad
              ELSE IF ParseUsize(parts[3])[1] # "Ok" THEN bad
              ELSE IF <<parts[1]>> \notin (DOMAIN st.nands) \cup (DOMAIN st.custom_gates)
              THEN bad
              ELSE LET io_index == ParseUsize(parts[3])[2]
                       gate == IF <<parts[1]>> \in DOMAIN st.nands
                               THEN st.nands[<<parts[1]>>]
                               ELSE st.custom_gates[<<parts[1]>>]
                   IN IF parts[2] = "in"
                      THEN IF info_input_count(gate) > io_index
                           THEN <<"Ok", input_connection(gate, io_index)>>
                           ELSE bad
                      ELSE IF info_output_count(gate) > io_index
                           THEN <<"Ok", output_connection(gate, io_index)>>
                           ELSE bad
         [] OTHER -> bad

InputsLoop_once(names, st) ==
    IF names = <<>> THEN st
    ELSE Let(create_input(st.results[st.current[1]]), LAMBDA r :
         [st EXCEPT !.results[st.current[1]] = r.map,
                    !.inputs = Insert(@, <<Head(names)>>, r.ret),
                    !.renderers[st.current[1]] = add_input(@, r.ret)])

RECURSIVE InputsLoop(_, _)
\* the loop of the inputs directive over the names of the line
InputsLoop(names, st) ==
    IF names = <<>> THEN st
    ELSE Let(create_input(st.results[st.current[1]]), LAMBDA r :
         Let([st EXCEPT !.results[st.current[1]] = r.map,
                        !.inputs = Insert(@, <<Head(names)>>, r.ret),
                        !.renderers[st.current[1]] = add_input(@, r.ret)], LAMBDA st2 :
         InputsLoop(Tail(names), st2)))

RECURSIVE OutputsLoop(_, _)
\* the loop of the outputs directive
OutputsLoop(names, st) ==
    IF names = <<>> THEN st
    ELSE Let(create_output(st.results[st.current[1]]), LAMBDA r :
         Let([st EXCEPT !.results[st.current[1]] = r.map,
                        !.outputs = Insert(@, <<Head(names)>>, r.ret),
                        !.renderers[st.current[1]] = add_output(@, r.ret)], LAMBDA st2 :
         OutputsLoop(Tail(names), st2)))

RECURSIVE NandsLoop(_, _)
\* the loop of the nands directive
NandsLoop(names, st) ==
    IF names = <<>> THEN st
    ELSE Let(create_nand_gate(st.results[st.current[1]]), LAMBDA r :
         Let([st EXCEPT !.results[st.current[1]] = r.map,
                        !.nands = Insert(@, <<Head(names)>>, r.ret)], LAMBDA st2 :
         NandsLoop(Tail(names), st2)))

RECURSIVE CustomGatesLoop(_, _, _, _)
\* the loop of the custom_gates directive over the "name = source" entries
CustomGatesLoop(definitions, st, n, line) ==
    IF definitions = <<>> THEN Go(st)
    ELSE Let(SplitOn(Head(definitions), "="), LAMBDA parts :
         IF Len(parts) # 2 THEN Fail(st, InvalidCustomGate(n, parts, line))
         ELSE IF parts[2] \notin DOMAIN st.results
         THEN Fail(st, InvalidCustomGate(n, parts, line))
         ELSE Let(create_custom_gate(st.results[st.current[1]], st.results[parts[2]]),
                  LAMBDA r :
              Let([st EXCEPT !.results[st.current[1]] = r.map,
                             !.custom_gates = Insert(@, parts[1], r.ret)], LAMBDA st2 :
              CustomGatesLoop(Tail(definitions), st2, n, line))))

RECURSIVE ConnectionsLoop(_, _, _, _)
\* the loop of the connections directive over the "start => end" entries:
\* both endpoints are resolved before the current circuit is looked at
ConnectionsLoop(definitions, st, n, line) ==
    IF definitions = <<>> THEN Go(st)
    ELSE Let(SplitOn(Head(definitions), "=>"), LAMBDA parts :
         IF Len(parts) # 2 THEN Fail(st, InvalidCustomGate(n, parts, line))
         ELSE Let(parse_version_0_connection_point(n, line, parts[1], st), LAMBDA start :
              IF start[1] = "Err" THEN Fail(st, start[2])
              ELSE Let(parse_version_0_connection_point(n, line, parts[2], st), LAMBDA end :
                   IF end[1] = "Err" THEN Fail(st, end[2])
                   ELSE IF st.current = None THEN Fail(st, NoCurrentGate(n, line))
                   ELSE Let([st EXCEPT !.results[st.current[1]] =
                                           create_connection(@, start[2], end[2]).map],
                            LAMBDA st2 :
                        ConnectionsLoop(Tail(definitions), st2, n, line)))))

\* the render_nand_gate / render_custom_gate branches; table is nands or
\* custom_gates and name_from the 0-based index of the first token of the
\* display name (3 for render_nand_gate, 2 for render_custom_gate)
RenderGate(parts, table, name_from, st, n, line) ==
    IF Len(parts) >= 4
    THEN IF <<parts[1]>> \notin DOMAIN table THEN Fail(st, InvalidRenderLine(n, line))
         ELSE IF ParseUsize(parts[2])[1] # "Ok" THEN Fail(st, InvalidRenderLine(n, line))
         ELSE IF ParseUsize(parts[3])[1] # "Ok" THEN Fail(st, InvalidRenderLine(n, line))
         ELSE IF st.current = None THEN Fail(st, NoCurrentGate(n, line))
         ELSE Go([st EXCEPT !.renderers[st.current[1]] =
                     add_gate(@, table[<<parts[1]>>].gate_id,
                              Pos2(ParseUsize(parts[2])[2], ParseUsize(parts[3])[2]),
                              SubSeq(parts, name_from + 1, Len(parts)))])
    ELSE Go(st)

DefineGate_freshTables(st, name) ==
    [st EXCEPT !.results = Insert(@, name, empty),
               !.renderers = Insert(@, name, MapRenderSavedState_new),
               !.current = Some(name),
               !.inputs = EmptyMap, !.outputs = EmptyMap,
               !.nands = EmptyMap, !.custom_gates = EmptyMap]

\* the define_gate branch: the name tables are left as they are
DefineGate(st, name) ==
    [st EXCEPT !.results = Insert(@, name, empty),
               !.renderers = Insert(@, name, MapRenderSavedState_new),
               !.current = Some(name)]

\* the body of the loop of parse_version_0 for one non-blank line
parse_version_0_line(st, n, line) ==
    CASE HasPrefix(line, "define_gate") -> Go(DefineGate(st, Operands(line)))
      [] HasPrefix(line, "inputs") ->
            IF st.current = None THEN Fail(st, NoCurrentGate(n, line))
            ELSE Go(InputsLoop(Operands(line), st))
      [] HasPrefix(line, "outputs") ->
            IF st.current = None THEN Fail(st, NoCurrentGate(n, line))
            ELSE Go(OutputsLoop(Operands(line), st))
      [] HasPrefix(line, "nands") ->
            IF st.current = None THEN Fail(st, NoCurrentGate(n, line))
            ELSE Go(NandsLoop(Operands(line), st))
      [] HasPrefix(line, "custom_gates") ->
            IF st.current = None THEN Fail(st, NoCurrentGate(n, line))
            ELSE CustomGatesLoop(SplitOn(Operands(line), ","), st, n, line)
      [] HasPrefix(line, "connections") ->
            ConnectionsLoop(SplitOn(Operands(line), ","), st, n, line)
      [] HasPrefix(line, "render_nand_gate") ->
            RenderGate(Operands(line), st.nands, 3, st, n, line)
      [] HasPrefix(line, "render_custom_gate") ->
            RenderGate(Operands(line), st.custom_gates, 2, st, n, line)
      [] OTHER -> Fail(st, UnrecognisedCommand(n, line))

\* the pair returned for one define_gate name: the layout is kept when it
\* has every gate of the circuit
ResultPair_any(st, name) ==
    [map |-> st.results[name],
     layout |-> IF \E x \in DOMAIN st.results[name].gates : has_gate(st.renderers[name], x)
                THEN Some(st.renderers[name])
                ELSE None]

ResultPair(st, name) ==
    [map |-> st.results[name],
     layout |-> IF \A x \in DOMAIN st.results[name].gates : has_gate(st.renderers[name], x)
                THEN Some(st.renderers[name])
                ELSE None]

\* ------------------------------------------------------------------------
\* Accessors used by the properties and by the builder's callers
\* ------------------------------------------------------------------------

\* LogicGate::inputs(): the ids of the gate's input slots
gate_input_ids(g) ==
    IF g.kind = "Nand" THEN {g.inputs[1][1], g.inputs[2][1]} ELSE DOMAIN g.map.inputs

\* LogicGate::outputs(): the ids of the gate's output slots
gate_output_ids(g) ==
    IF g.kind = "Nand" THEN {g.output[1]} ELSE DOMAIN g.map.outputs

\* the connection points that name something present in the circuit (what
\* the creation records and the create_* return values hand to a caller)
Endpoints(self) ==
    {Input(i) : i \in DOMAIN self.inputs}
    \cup {Output(o) : o \in DOMAIN self.outputs}
    \cup {MiddleSignal(s) : s \in DOMAIN self.middle_signals}
    \cup UNION {{GateInput(g, i) : i \in gate_input_ids(self.gates[g])} : g \in DOMAIN self.gates}
    \cup UNION {{GateOutput(g, o) : o \in gate_output_ids(self.gates[g])} : g \in DOMAIN self.gates}

\* connection points that name a gate of the circuit and, for a Custom gate,
\* an id of its inner circuit that is a port of the other direction
StrayEnds(self) ==
    UNION {{GateInput(g, o) : o \in gate_output_ids(self.gates[g])} \cup
           {GateOutput(g, i) : i \in gate_input_ids(self.gates[g])} :
           g \in {x \in DOMAIN self.gates : self.gates[x].kind = "Custom"}}

RECURSIVE EndpointsExist(_)
\* every connection of the circuit starts and ends at a connection point
\* that names something present, and so in every nested circuit
EndpointsExist(self) ==
    /\ \A c \in DOMAIN self.connections :
          /\ self.connections[c].start \in Endpoints(self)
          /\ self.connections[c].end \in Endpoints(self)
    /\ \A g \in DOMAIN self.gates :
          self.gates[g].kind = "Custom" => EndpointsExist(self.gates[g].map)

RECURSIVE Identifiers(_)
\* the circuit without its boolean values: the key sets of its inputs,
\* outputs and middle signals, its connections, its allocator, and for every
\* gate the ids of its slots (a Nand) or the same of its inner circuit
Identifiers(self) ==
    [inputs |-> DOMAIN self.inputs,
     outputs |-> DOMAIN self.outputs,
     middle_signals |-> DOMAIN self.middle_signals,
     gates |-> [g \in DOMAIN self.gates |->
                  IF self.gates[g].kind = "Nand"
                  THEN [kind |-> "Nand",
                        inputs |-> <<self.gates[g].inputs[1][1], self.gates[g].inputs[2][1]>>,
                        output |-> self.gates[g].output[1]]
                  ELSE [kind |-> "Custom", map |-> Identifiers(self.gates[g].map)]],
     connections |-> self.connections,
     id_generator |-> self.id_generator]

\* all inputs of the circuit hold one value
InputsAgree(self) ==
    \A i, j \in DOMAIN self.inputs : self.inputs[i] = self.inputs[j]

\* the k-th input / output (0-based, ascending id) of a circuit
NthInput(self, k) == SortedSeq(DOMAIN self.inputs)[k + 1]
NthOutput(self, k) == SortedSeq(DOMAIN self.outputs)[k + 1]

\* ------------------------------------------------------------------------
\* The simulation: a circuit is constructed (from the library or with the
\* create_* operations), then stepped, with its inputs toggled by clicks
\* ------------------------------------------------------------------------

\* bounds of the simulation
MaxInputs == 1
MaxOutputs == 1
MaxNands == 1
MaxCustoms == 1
MaxConnections == 2
MaxToggles == 2

VARIABLES
    map,        \* the circuit being built or simulated
    kind,       \* "none", "built" (create_* operations) or a library name
    stepped,    \* step() has been called on map
    last,       \* the last operation
    toggles,    \* the number of clicks so far
    held,       \* no input has changed since the first step
    touched,    \* the inputs that were ever toggled
    pulse,      \* the input that was pulsed on a settled latch, or "none"
    records,    \* the GateCreationInfo returned for each gate of a built circuit
    balanced    \* every call of step() so far found all inputs with one value

simVars == <<map, kind, stepped, last, toggles, held, touched, pulse, records, balanced>>

VARIABLES
    pc,           \* "version", "lines", "ok" (Ok returned) or "err" (Err returned)
    raw,          \* the number of lines of the document read so far
    line_number,  \* the counter of lines.enumerate() in parse_version_0
    locals,       \* the locals of parse_version_0
    error,        \* the error returned, or NoError
    returned,     \* the vector returned by a successful parse
    lastLine,     \* the line read last
    seenDefine,   \* a define_gate line has been read
    version_line, \* the local version_line of parse_text: the first non-blank line
    read          \* what the lines handed to parse_version_0 so far contain

parseVars ==
    <<pc, raw, line_number, locals, error, returned, lastLine, seenDefine, version_line, read>>

\* the elements of a sequence
Range(seq) == {seq[i] : i \in DOMAIN seq}

\* what one line of a document contains: define_gate lines and their names,
\* names on inputs and outputs lines, names on nands lines and entries on
\* custom_gates lines (counted, and as a set of gate names), entries on
\* connections lines, and the gate names of the render lines that have a
\* position and a display name
Tally(line) ==
    [define_gate |-> IF HasPrefix(line, "define_gate") THEN 1 ELSE 0,
     names |-> IF HasPrefix(line, "define_gate") THEN {Operands(line)} ELSE {},
     gate_names |-> IF HasPrefix(line, "nands")
                    THEN {<<"nand", name>> : name \in Range(Operands(line))}
                    ELSE IF HasPrefix(line, "custom_gates")
                    THEN {<<"custom", Head(entry)>> :
                              entry \in Range(SplitOn(Operands(line), ","))}
                    ELSE {},
     rendered |-> IF HasPrefix(line, "render_nand_gate") /\ Len(Operands(line)) >= 4
                  THEN {<<"nand", line[2]>>}
                  ELSE IF HasPrefix(line, "render_custom_gate") /\ Len(Operands(line)) >= 4
                  THEN {<<"custom", line[2]>>}
                  ELSE {},
     inputs |-> IF HasPrefix(line, "inputs") THEN Len(Operands(line)) ELSE 0,
     outputs |-> IF HasPrefix(line, "outputs") THEN Len(Operands(line)) ELSE 0,
     gates |-> IF HasPrefix(line, "nands") THEN Len(Operands(line))
               ELSE IF HasPrefix(line, "custom_gates")
               THEN Len(SplitOn(Operands(line), ","))
               ELSE 0,
     connections |-> IF HasPrefix(line, "connections")
                     THEN Len(SplitOn(Operands(line), ","))
                     ELSE 0]

ReadNothing == Tally(<<>>)

\* the tally of a document and of one more line
AddTally(t, line) ==
    [f \in DOMAIN t |->
        IF f \in {"names", "gate_names", "rendered"}
        THEN t[f] \cup Tally(line)[f]
        ELSE t[f] + Tally(line)[f]]

VARIABLES
    app,          \* "off", "running" or "aborted" (a panic ended the process)
    maps,         \* the list parse_text returned to LogicGateApp::default
    loaded,       \* the pair LogicGateApp::default selected, if any
    render_data,  \* the field render_data of LogicGateApp
    frames,       \* the number of calls of update that returned
    steps,        \* the number of calls of step() made by the application
    click,        \* click_position of the last frame
    post_step     \* the circuit of the last frame after its steps, before its click

appVars == <<app, maps, loaded, render_data, frames, steps, click, post_step>>

VARIABLES
    inner,      \* the field inner of one IdGenerator
    issued,     \* the ids its calls of generate() returned, in call order
    gate,       \* one LogicGate whose methods are called (kind "none" before it is created)
    info,       \* the GateCreationInfo returned when that gate was created
    outcome     \* the last method call on gate: [op, id, ret]

gateVars == <<inner, issued, gate, info, outcome>>

vars == <<simVars, parseVars, appVars, gateVars>>

ParseInit ==
    /\ pc = "version"
    /\ raw = 0
    /\ line_number = 0
    /\ locals = ParserLocals
    /\ error = NoError
    /\ returned = <<>>
    /\ lastLine = <<>>
    /\ seenDefine = FALSE
    /\ version_line = None
    /\ read = ReadNothing

AppInit ==
    /\ app = "off"
    /\ maps = <<>>
    /\ loaded = None
    /\ render_data = MapRenderSavedState_new
    /\ frames = 0
    /\ steps = 0
    /\ click = None
    /\ post_step = empty

SimInit ==
    /\ map = empty
    /\ kind = "none"
    /\ stepped = FALSE
    /\ last = "init"
    /\ toggles = 0
    /\ held = TRUE
    /\ touched = {}
    /\ pulse = "none"
    /\ records = EmptyMap
    /\ balanced = TRUE

\* IdGenerator::new, and no gate created yet
GateInit ==
    /\ inner = IdGenerator_new
    /\ issued = <<>>
    /\ gate = [kind |-> "none"]
    /\ info = GateCreationInfo_new(0, <<>>, <<>>)
    /\ outcome = [op |-> "none", id |-> 0, ret |-> <<"Unit">>]

Init == SimInit /\ ParseInit /\ AppInit /\ GateInit

NandCount(self) == Cardinality({g \in DOMAIN self.gates : self.gates[g].kind = "Nand"})
CustomCount(self) == Cardinality({g \in DOMAIN self.gates : self.gates[g].kind = "Custom"})
Card(f) == Cardinality(DOMAIN f)

Building == kind \in {"none", "built"} /\ ~stepped /\ toggles = 0

Built(new_map) ==
    /\ map' = new_map
    /\ kind' = "built"
    /\ last' = "create"
    /\ UNCHANGED <<stepped, toggles, held, touched, pulse, balanced>>
    /\ UNCHANGED <<parseVars, appVars, gateVars>>

\* one of the library constructors is called
Construct ==
    /\ kind = "none" /\ map = empty /\ ~stepped
    /\ \E k \in LibraryKinds :
          /\ map' = Library(k)
          /\ kind' = k
    /\ last' = "construct"
    /\ UNCHANGED <<stepped, toggles, held, touched, pulse, records, balanced>>
    /\ UNCHANGED <<parseVars, appVars, gateVars>>

\* create_input, before any gate, output or connection (the gate! order)
CreateInput ==
    /\ Building
    /\ Card(map.inputs) < MaxInputs
    /\ Card(map.gates) = 0 /\ Card(map.outputs) = 0 /\ Card(map.connections) = 0
    /\ Built(create_input(map).map)
    /\ UNCHANGED records

CreateNandGate ==
    /\ Building
    /\ NandCount(map) < MaxNands
    /\ CustomCount(map) = 0 /\ Card(map.outputs) = 0 /\ Card(map.connections) = 0
    /\ \E r \in {create_nand_gate(map)} :
          /\ Built(r.map)
          /\ records' = Insert(records, r.ret.gate_id, r.ret)

\* a circuit that is not in the library: two inputs drive one output
TwoDrivers ==
    Let(create_input(empty), LAMBDA r1 :
    Let(create_input(r1.map), LAMBDA r2 :
    Let(create_output(r2.map), LAMBDA r3 :
    Let(create_connection(r3.map, Input(r1.ret), Output(r3.ret)).map, LAMBDA c1 :
    create_connection(c1, Input(r2.ret), Output(r3.ret)).map))))

\* the circuits handed to create_custom_gate, which takes any circuit
Nestable == {not_gate, TwoDrivers}

CreateCustomGate ==
    /\ Building
    /\ CustomCount(map) < MaxCustoms
    /\ Card(map.outputs) = 0 /\ Card(map.connections) = 0
    /\ \E gate_map \in Nestable :
          \E r \in {create_custom_gate(map, gate_map)} :
              /\ Built(r.map)
              /\ records' = Insert(records, r.ret.gate_id, r.ret)

CreateOutput ==
    /\ Building
    /\ Card(map.outputs) < MaxOutputs
    /\ Card(map.connections) = 0
    /\ Built(create_output(map).map)
    /\ UNCHANGED records

\* create_connection between two points handed out by the create_* calls
CreateConnection ==
    /\ Building
    /\ Card(map.connections) < MaxConnections
    /\ \E start \in Endpoints(map), end \in Endpoints(map) :
          Built(create_connection(map, start, end).map)
    /\ UNCHANGED records

\* create_connection checks neither endpoint: the end names a gate of the
\* circuit and an id that the gate's inner circuit handed out for a port of
\* the other direction
CreateStrayConnection ==
    /\ Building
    /\ Card(map.connections) < MaxConnections
    /\ \E start \in Endpoints(map), end \in StrayEnds(map) :
          Built(create_connection(map, start, end).map)
    /\ UNCHANGED records

RECURSIVE HoldFor(_, _)
\* the circuits that n more calls of step() can give, with the inputs left
\* alone
HoldFor(self, n) ==
    IF n = 0 THEN {self}
    ELSE Let(LogicGateMap_step(self), LAMBDA nexts :
             UNION {HoldFor(next, n - 1) : next \in nexts})

\* the circuit has reached a fixed point of step()
Settled(self) == LogicGateMap_step(self) = {self}

\* a click on the port of input id toggles it (process_input_and_render)
Toggle ==
    /\ kind # "none"
    /\ toggles < MaxToggles
    /\ \E id \in DOMAIN map.inputs :
          /\ map' = [map EXCEPT !.inputs[id] = ~@]
          /\ touched' = touched \cup {id}
          /\ pulse' =
               IF /\ kind = "sr_latch"
                  /\ map.inputs[id]
                  /\ touched \subseteq {id}
                  /\ Settled(map)
               THEN (IF id = NthInput(map, 0) THEN "set" ELSE "reset")
               ELSE "none"
    /\ toggles' = toggles + 1
    /\ held' = (held /\ ~stepped)
    /\ last' = "toggle"
    /\ UNCHANGED <<kind, stepped, records, balanced>>
    /\ UNCHANGED <<parseVars, appVars, gateVars>>

\* one call of LogicGateMap::step
Step ==
    /\ kind # "none"
    /\ ~step_panics(map)
    /\ \E visit \in Visits(map) : map' = LogicGateMap_step_in(map, visit)
    /\ stepped' = TRUE
    /\ last' = "step"
    /\ balanced' = (balanced /\ InputsAgree(map))
    /\ UNCHANGED <<kind, toggles, held, touched, pulse, records>>
    /\ UNCHANGED <<parseVars, appVars, gateVars>>

Next ==
    \/ Construct
    \/ CreateInput
    \/ CreateNandGate
    \/ CreateCustomGate
    \/ CreateOutput
    \/ CreateConnection
    \/ CreateStrayConnection
    \/ Toggle
    \/ Step

Spec == Init /\ [][Next]_vars

\* A library circuit whose inputs are set once, right after construction, and
\* then held while the frame loop steps the circuit again and again (the
\* loop requests a repaint at the end of every frame, so stepping never
\* stops while a circuit is displayed).
SetInput == Toggle /\ ~stepped

HeldNext ==
    \/ Construct
    \/ SetInput
    \/ Step

HeldSpec == Init /\ [][HeldNext]_vars /\ WF_vars(Step)

\* A d_latch whose inputs are clicked at any time, a bounded number of times,
\* while the frame loop goes on stepping it: after the last click the inputs
\* are held for ever.
ConstructLatch == Construct /\ kind' = "d_latch"

LatchNext ==
    \/ ConstructLatch
    \/ Toggle
    \/ Step

LatchSpec == Init /\ [][LatchNext]_vars /\ WF_vars(Step)

\* ------------------------------------------------------------------------
\* id.rs: one IdGenerator whose generate() is called again and again
\* ------------------------------------------------------------------------

\* the number of calls of generate() that are followed
MaxIds == 120

\* one call of IdGenerator::generate
Generate ==
    /\ Len(issued) < MaxIds
    /\ inner' = IdGenerator_generate(inner).inner
    /\ issued' = Append(issued, IdGenerator_generate(inner).ret)
    /\ UNCHANGED <<gate, info, outcome>>
    /\ UNCHANGED <<simVars, parseVars, appVars>>

IdNext == Generate

IdSpec == Init /\ [][IdNext]_vars

\* ------------------------------------------------------------------------
\* logic_gate.rs: the methods of one LogicGate, called with ids that belong
\* to the gate and with ids that do not
\* ------------------------------------------------------------------------

\* the ids handed to the methods are 0..MaxId
MaxId == 5
\* the number of ids that the set_* calls may add to a gate
MaxStray == 1

CallIds == 0..MaxId

\* the results of the methods
Unit == <<"Unit">>
Panic == <<"Panic">>
Index(k) == <<"Index", k>>

\* the circuits a gate is created in: an empty one, and one with an input
Hosts == {empty, create_input(empty).map}

\* the ids of gate that its creation record does not have
StrayIds(g, r) ==
    (gate_input_ids(g) \ Range(r.inputs)) \cup (gate_output_ids(g) \ Range(r.outputs))

\* a method can be called: the gate exists and no call has aborted
Callable == gate.kind # "none" /\ outcome.ret # Panic

\* the caller keeps the gate that create_nand_gate put into the circuit
NewNandGate ==
    /\ gate.kind = "none"
    /\ \E host \in Hosts :
          \E r \in {create_nand_gate(host)} :
              /\ gate' = r.map.gates[r.ret.gate_id]
              /\ info' = r.ret
              /\ outcome' = [op |-> "create_nand_gate", id |-> r.ret.gate_id, ret |-> Unit]
    /\ UNCHANGED <<inner, issued>>
    /\ UNCHANGED <<simVars, parseVars, appVars>>

\* the same for create_custom_gate with a library circuit
NewCustomGate ==
    /\ gate.kind = "none"
    /\ \E host \in Hosts, k \in {"not_gate", "and_gate"} :
          \E r \in {create_custom_gate(host, Library(k))} :
              /\ gate' = r.map.gates[r.ret.gate_id]
              /\ info' = r.ret
              /\ outcome' = [op |-> "create_custom_gate", id |-> r.ret.gate_id, ret |-> Unit]
    /\ UNCHANGED <<inner, issued>>
    /\ UNCHANGED <<simVars, parseVars, appVars>>

\* a call of a method that leaves the gate as it is
Query(op, id, ret) ==
    /\ outcome' = [op |-> op, id |-> id, ret |-> ret]
    /\ UNCHANGED <<gate, info, inner, issued>>
    /\ UNCHANGED <<simVars, parseVars, appVars>>

\* a call of a method that returns nothing and may change the gate
Update(op, id, new_gate) ==
    /\ Cardinality(StrayIds(new_gate, info)) <= MaxStray
    /\ gate' = new_gate
    /\ outcome' = [op |-> op, id |-> id, ret |-> Unit]
    /\ UNCHANGED <<info, inner, issued>>
    /\ UNCHANGED <<simVars, parseVars, appVars>>

GateGetInput ==
    /\ Callable
    /\ \E id \in CallIds :
          Query("get_input", id,
                IF LogicGate_get_input_panics(gate, id) THEN Panic
                ELSE LogicGate_get_input(gate, id))

GateGetOutput ==
    /\ Callable
    /\ \E id \in CallIds :
          Query("get_output", id,
                IF LogicGate_get_output_panics(gate, id) THEN Panic
                ELSE LogicGate_get_output(gate, id))

GateSetInput ==
    /\ Callable
    /\ \E id \in CallIds, new_value \in BOOLEAN :
          Update("set_input", id, LogicGate_set_input(gate, id, new_value))

GateSetOutput ==
    /\ Callable
    /\ \E id \in CallIds, new_value \in BOOLEAN :
          Update("set_output", id, LogicGate_set_output(gate, id, new_value))

GateGetInputIndex ==
    /\ Callable
    /\ \E id \in CallIds :
          Query("get_input_index", id,
                IF LogicGate_get_input_index_panics(gate, id) THEN Panic
                ELSE Index(LogicGate_get_input_index(gate, id)))

GateGetOutputIndex ==
    /\ Callable
    /\ \E id \in CallIds :
          Query("get_output_index", id,
                IF LogicGate_get_output_index_panics(gate, id) THEN Panic
                ELSE Index(LogicGate_get_output_index(gate, id)))

GateNext ==
    \/ NewNandGate
    \/ NewCustomGate
    \/ GateGetInput
    \/ GateGetOutput
    \/ GateSetInput
    \/ GateSetOutput
    \/ GateGetInputIndex
    \/ GateGetOutputIndex

GateSpec == Init /\ [][GateNext]_vars

\* ------------------------------------------------------------------------
\* The parser run: parse_text reads the document line by line
\* ------------------------------------------------------------------------

\* bound of the parser run: the number of lines of a document
MaxLines == 6

\* the lines a document of the model is made of
FirstLines ==
    {<<"version", "0">>, <<"version", "1">>, <<"version">>, <<"define_gate", "a">>,
     <<"version", "k">>, <<"version", "0", "0">>}
DefineLines == {<<"define_gate", "a">>, <<"define_gate", "b">>}
InputsLines == {<<"inputs", "x">>, <<"inputs", "x", "y">>}
OutputsLines == {<<"outputs", "q">>}
NandsLines == {<<"nands", "n">>}
CustomGatesLines ==
    {<<"custom_gates", "c", "=", "a">>, <<"custom_gates", "c", "=", "z">>,
     <<"custom_gates", "c", "=">>}
PointTexts ==
    {<<"x">>, <<"q">>, <<"n", "in", "0">>, <<"n", "out", "0">>, <<"c", "out", "0">>,
     <<"n", "in", "2">>, <<"n", "at", "0">>, <<"n", "in", "k">>, <<"n", "in">>}
ConnectionsLines ==
    {<<"connections">> \o start \o <<"=>">> \o end : start \in PointTexts, end \in PointTexts}
    \cup {<<"connections", "x", "=>">>,
          <<"connections", "x", "=>", "q", ",", "x", "=>", "n", "in", "1">>}
RenderNandLines ==
    {<<"render_nand_gate", "n", "1", "2", "nm">>, <<"render_nand_gate", "n", "k", "2", "nm">>,
     <<"render_nand_gate", "n", "1">>}
RenderCustomLines ==
    {<<"render_custom_gate", "c", "1", "2", "nm">>, <<"render_custom_gate", "c", "1", "k", "nm">>,
     <<"render_custom_gate", "c", "1">>}
OtherLines == {<<"wires", "x">>, <<"inputs">>}

\* parse_text returns Err(e): its locals are dropped
ReturnErr(e) ==
    /\ pc' = "err"
    /\ error' = e
    /\ locals' = ParserLocals
    /\ line_number' = 0
    /\ returned' = <<>>

\* a blank line is filtered out before the version line is taken and before
\* the lines are enumerated
ReadBlank ==
    /\ pc \in {"version", "lines"}
    /\ raw < MaxLines
    /\ raw' = raw + 1
    /\ lastLine' = <<>>
    /\ UNCHANGED <<pc, line_number, locals, error, returned, seenDefine, version_line, read>>
    /\ UNCHANGED <<simVars, appVars, gateVars>>

\* parse_text on the first non-blank line
ReadVersionLine_anyVersion ==
    /\ pc = "version"
    /\ raw < MaxLines
    /\ \E line \in FirstLines :
          /\ lastLine' = line
          /\ version_line' = Some(line)
          /\ IF HasPrefix(line, "version") /\ Len(line) = 2
                /\ ParseUsize(line[2])[1] = "Ok"
             THEN IF ParseUsize(line[2])[2] >= 0
                  THEN /\ pc' = "lines"
                       /\ UNCHANGED <<line_number, locals, error, returned>>
                  ELSE ReturnErr(InvalidVersionLine(line))
             ELSE ReturnErr(InvalidVersionLine(line))
    /\ raw' = raw + 1
    /\ UNCHANGED <<seenDefine, read>>
    /\ UNCHANGED <<simVars, appVars, gateVars>>

ReadVersionLine ==
    /\ pc = "version"
    /\ raw < MaxLines
    /\ \E line \in FirstLines :
          /\ lastLine' = line
          /\ version_line' = Some(line)
          /\ IF HasPrefix(line, "version") /\ Len(line) = 2
                /\ ParseUsize(line[2])[1] = "Ok"
             THEN IF ParseUsize(line[2])[2] = 0
                  THEN /\ pc' = "lines"
                       /\ UNCHANGED <<line_number, locals, error, returned>>
                  ELSE ReturnErr(InvalidVersionLine(line))
             ELSE ReturnErr(InvalidVersionLine(line))
    /\ raw' = raw + 1
    /\ UNCHANGED <<seenDefine, read>>
    /\ UNCHANGED <<simVars, appVars, gateVars>>

\* one iteration of the loop of parse_version_0
ReadLine(line) ==
    /\ raw < MaxLines
    /\ raw' = raw + 1
    /\ lastLine' = line
    /\ seenDefine' = (seenDefine \/ HasPrefix(line, "define_gate"))
    /\ read' = AddTally(read, line)
    /\ UNCHANGED version_line
    /\ LET r == parse_version_0_line(locals, line_number, line)
       IN IF r.err = NoError
          THEN /\ locals' = r.st
               /\ line_number' = line_number + 1
               /\ UNCHANGED <<pc, error, returned>>
          ELSE ReturnErr(r.err)
    /\ UNCHANGED <<simVars, appVars, gateVars>>

ReadDefineGate ==
    /\ pc = "lines"
    /\ \E line \in DefineLines : ReadLine(line)
ReadInputs ==
    /\ pc = "lines"
    /\ \E line \in InputsLines : ReadLine(line)
ReadOutputs ==
    /\ pc = "lines"
    /\ \E line \in OutputsLines : ReadLine(line)
ReadNands ==
    /\ pc = "lines"
    /\ \E line \in NandsLines : ReadLine(line)
ReadCustomGates ==
    /\ pc = "lines"
    /\ \E line \in CustomGatesLines : ReadLine(line)
ReadConnections ==
    /\ pc = "lines"
    /\ \E line \in ConnectionsLines : ReadLine(line)
ReadRenderNandGate ==
    /\ pc = "lines"
    /\ \E line \in RenderNandLines : ReadLine(line)
ReadRenderCustomGate ==
    /\ pc = "lines"
    /\ \E line \in RenderCustomLines : ReadLine(line)
ReadOther ==
    /\ pc = "lines"
    /\ \E line \in OtherLines : ReadLine(line)

\* the document ends before a non-blank line was found
EndWithoutVersion ==
    /\ pc = "version"
    /\ ReturnErr(MissingVersionLine)
    /\ UNCHANGED <<raw, lastLine, seenDefine, version_line, read>>
    /\ UNCHANGED <<simVars, appVars, gateVars>>

\* the document ends: the results are collected, in the iteration order of
\* the results HashMap
EndOfDocument_renderable ==
    /\ pc = "lines"
    /\ pc' = "ok"
    /\ \E order \in Perms(DOMAIN locals.results) :
          returned' = SelectSeq([i \in DOMAIN order |-> ResultPair(locals, order[i])],
                                 LAMBDA pair : pair.layout # None)
    /\ UNCHANGED <<raw, line_number, locals, error, lastLine, seenDefine, version_line, read>>
    /\ UNCHANGED <<simVars, appVars, gateVars>>

EndOfDocument ==
    /\ pc = "lines"
    /\ pc' = "ok"
    /\ \E order \in Perms(DOMAIN locals.results) :
          returned' = [i \in DOMAIN order |-> ResultPair(locals, order[i])]
    /\ UNCHANGED <<raw, line_number, locals, error, lastLine, seenDefine, version_line, read>>
    /\ UNCHANGED <<simVars, appVars, gateVars>>

ParseNext ==
    \/ ReadBlank
    \/ ReadVersionLine
    \/ ReadDefineGate
    \/ ReadInputs
    \/ ReadOutputs
    \/ ReadNands
    \/ ReadCustomGates
    \/ ReadConnections
    \/ ReadRenderNandGate
    \/ ReadRenderCustomGate
    \/ ReadOther
    \/ EndWithoutVersion
    \/ EndOfDocument

ParseSpec == Init /\ [][ParseNext]_vars

\* ------------------------------------------------------------------------
\* The application: LogicGateApp::default loads a document, and every frame
\* LogicGateApp::update steps the circuit and handles the click
\* ------------------------------------------------------------------------

\* bound of the application run: the number of frames
MaxFrames == 2

\* the number of steps of one frame
StepsPerFrame == 10

RECURSIVE parse_version_0(_, _, _)
\* parse_version_0: the loop over the non-blank lines after the version line
parse_version_0(st, lines, n) ==
    IF lines = <<>> THEN Go(st)
    ELSE Let(parse_version_0_line(st, n, Head(lines)), LAMBDA r :
         IF r.err = NoError THEN parse_version_0(r.st, Tail(lines), n + 1) ELSE r)

\* parse_text up to the collection of the results
parse_text(value) ==
    Let(SelectSeq(value, LAMBDA l : l # <<>>), LAMBDA lines :
        IF lines = <<>> THEN Fail(ParserLocals, MissingVersionLine)
        ELSE IF HasPrefix(Head(lines), "version") /\ Len(Head(lines)) = 2
                /\ ParseUsize(Head(lines)[2]) = <<"Ok", 0>>
        THEN parse_version_0(ParserLocals, Tail(lines), 0)
        ELSE Fail(ParserLocals, InvalidVersionLine(Head(lines))))

\* the documents gates.dat of the model
WiredNand ==
    << <<"version", "0">>,
       <<"define_gate", "a">>,
       <<"inputs", "x", "y">>,
       <<"outputs", "q">>,
       <<"nands", "n">>,
       <<"connections", "x", "=>", "n", "in", "0", ",", "y", "=>", "n", "in", "1", ",",
         "n", "out", "0", "=>", "q">>,
       <<"render_nand_gate", "n", "1", "2", "nm">> >>
Oscillator ==
    << <<"version", "0">>,
       <<"define_gate", "a">>,
       <<"inputs", "x">>,
       <<"nands", "n">>,
       <<"connections", "n", "out", "0", "=>", "n", "in", "0", ",",
         "n", "out", "0", "=>", "n", "in", "1">>,
       <<"render_nand_gate", "n", "1", "2", "nm">> >>
TwoRenderable ==
    << <<"version", "0">>,
       <<"define_gate", "a">>,
       <<"inputs", "x">>,
       <<>>,
       <<"define_gate", "b">>,
       <<"inputs", "x", "y">>,
       <<"outputs", "q">>,
       <<"connections", "x", "=>", "q">> >>
OneRenderable ==
    << <<"version", "0">>,
       <<"define_gate", "a">>,
       <<"inputs", "x">>,
       <<"define_gate", "b">>,
       <<"nands", "n">> >>
NoneRenderable ==
    << <<"version", "0">>,
       <<"define_gate", "a">>,
       <<"nands", "n">> >>
Unparsable == << <<"version", "1">>, <<"define_gate", "a">> >>
ForeignName ==
    << <<"version", "0">>,
       <<"define_gate", "a">>,
       <<"inputs", "x">>,
       <<"define_gate", "b">>,
       <<"connections", "x", "=>", "x">> >>
NestedDrivers ==
    << <<"version", "0">>,
       <<"define_gate", "a">>,
       <<"inputs", "x", "y">>,
       <<"outputs", "q">>,
       <<"connections", "x", "=>", "q", ",", "y", "=>", "q">>,
       <<"define_gate", "b">>,
       <<"inputs", "u">>,
       <<"outputs", "r">>,
       <<"custom_gates", "g", "=", "a">>,
       <<"connections", "u", "=>", "g", "in", "0", ",", "g", "out", "0", "=>", "r">>,
       <<"render_custom_gate", "g", "1", "2", "G">> >>
Documents ==
    {WiredNand, Oscillator, TwoRenderable, OneRenderable, NoneRenderable, Unparsable,
     ForeignName, NestedDrivers}

\* the click positions of the model
Clicks ==
    {None, Some(Pos2(30, 30)), Some(Pos2(30, 50)), Some(Pos2(30, 51)), Some(Pos2(44, 44)),
     Some(Pos2(45, 45)), Some(Pos2(30, 65)), Some(Pos2(30, 100))}

\* maps.iter().rev().find(|(_, b)| b.is_some()): the position of the pair
\* selected, 0 when there is none
FirstRenderable(list) ==
    IF \E i \in DOMAIN list : list[i].layout # None
    THEN CHOOSE i \in DOMAIN list :
             /\ list[i].layout # None
             /\ \A j \in DOMAIN list : list[j].layout # None => j >= i
    ELSE 0

LastRenderable(list) ==
    IF \E i \in DOMAIN list : list[i].layout # None
    THEN CHOOSE i \in DOMAIN list :
             /\ list[i].layout # None
             /\ \A j \in DOMAIN list : list[j].layout # None => j <= i
    ELSE 0

\* MapRenderSavedState::input_position; the unwrap panics when the layout
\* does not list the input
input_position(self, id) ==
    Pos2(30, 30 + 70 * ((CHOOSE i \in DOMAIN self.inputs :
                            /\ self.inputs[i] = id
                            /\ \A j \in DOMAIN self.inputs : self.inputs[j] = id => j >= i) - 1))

intersects_point_strict(position, radius, point) ==
    (point.x - position.x) * (point.x - position.x)
        + (point.y - position.y) * (point.y - position.y) < radius * radius

\* CircleCollider::intersects_point
intersects_point(position, radius, point) ==
    (point.x - position.x) * (point.x - position.x)
        + (point.y - position.y) * (point.y - position.y) <= radius * radius

\* the connection point has a position: connection_point_position returns
has_position(self, circuit, connection_point) ==
    CASE connection_point.type = "Input" -> connection_point.id \in Range(self.inputs)
      [] connection_point.type = "Output" -> connection_point.id \in Range(self.outputs)
      [] connection_point.type = "MiddleSignal" ->
             connection_point.id \in DOMAIN self.middle_signals
      [] connection_point.type = "GateInput" ->
             /\ connection_point.gate \in DOMAIN self.gates
             /\ connection_point.gate \in DOMAIN circuit.gates
             /\ circuit.gates[connection_point.gate].kind = "Custom" =>
                    connection_point.id \in gate_input_ids(circuit.gates[connection_point.gate])
      [] connection_point.type = "GateOutput" ->
             /\ connection_point.gate \in DOMAIN self.gates
             /\ connection_point.gate \in DOMAIN circuit.gates
             /\ circuit.gates[connection_point.gate].kind = "Custom" =>
                    connection_point.id \in gate_output_ids(circuit.gates[connection_point.gate])

\* process_input_and_render panics: an unwrap, an index or an expect fails
render_panics(self, circuit) ==
    \/ \E id \in DOMAIN circuit.inputs : id \notin Range(self.inputs)
    \/ \E id \in DOMAIN circuit.outputs : id \notin Range(self.outputs)
    \/ \E id \in DOMAIN circuit.middle_signals : id \notin DOMAIN self.middle_signals
    \/ \E c \in DOMAIN circuit.connections :
          \/ ~has_position(self, circuit, circuit.connections[c].start)
          \/ ~has_position(self, circuit, circuit.connections[c].end)
          \/ ~CanRead(circuit, circuit.connections[c].start)
    \/ \E id \in DOMAIN self.gates : id \notin DOMAIN circuit.gates

process_input_and_render_outputs(self, circuit, click_position) ==
    [circuit EXCEPT !.outputs =
        [id \in DOMAIN circuit.outputs |->
            IF /\ click_position # None
               /\ id \in Range(self.outputs)
               /\ intersects_point(Pos2(30, 30), 20, click_position[1])
            THEN ~circuit.outputs[id]
            ELSE circuit.outputs[id]]]

\* process_input_and_render: what it does to the circuit
process_input_and_render(self, circuit, click_position) ==
    [circuit EXCEPT !.inputs =
        [id \in DOMAIN circuit.inputs |->
            IF /\ click_position # None
               /\ intersects_point(input_position(self, id), 20, click_position[1])
            THEN ~circuit.inputs[id]
            ELSE circuit.inputs[id]]]

RECURSIVE StepLoop(_, _)
\* n iterations of `*writeable = writeable.step()`, from each circuit of S:
\* the circuits that can result, or a panic
StepLoop(S, n) ==
    Let(S, LAMBDA T :
        IF n = 0 THEN [panic |-> FALSE, maps |-> T]
        ELSE IF \E m \in T : step_panics(m) THEN [panic |-> TRUE, maps |-> {}]
        ELSE StepLoop(UNION {LogicGateMap_step(m) : m \in T}, n - 1))

\* LogicGateApp::default: read and parse the document, select the pair to show
Startup ==
    /\ app = "off"
    /\ \E value \in Documents :
          LET parsed == parse_text(value)
          IN IF parsed.err # NoError
             THEN /\ app' = "aborted"
                  /\ UNCHANGED <<maps, loaded, render_data, map>>
             ELSE \E order \in Perms(DOMAIN parsed.st.results) :
                     LET list == [i \in DOMAIN order |-> ResultPair(parsed.st, order[i])]
                     IN /\ maps' = list
                        /\ IF LastRenderable(list) = 0
                           THEN /\ app' = "aborted"
                                /\ UNCHANGED <<loaded, render_data, map>>
                           ELSE /\ app' = "running"
                                /\ loaded' = Some(list[LastRenderable(list)])
                                /\ map' = list[LastRenderable(list)].map
                                /\ render_data' = list[LastRenderable(list)].layout[1]
    /\ UNCHANGED <<frames, steps, click, post_step>>
    /\ UNCHANGED <<kind, stepped, last, toggles, held, touched, pulse, records, balanced>>
    /\ UNCHANGED <<parseVars, gateVars>>

Frame_clickFirst ==
    /\ app = "running"
    /\ frames < MaxFrames
    /\ \E click_position \in Clicks :
          /\ click' = click_position
          /\ IF render_panics(render_data, map)
             THEN /\ app' = "aborted"
                  /\ UNCHANGED <<map, frames, steps, post_step>>
             ELSE LET ran == StepLoop({process_input_and_render(render_data, map,
                                                                click_position)},
                                      StepsPerFrame)
                  IN IF ran.panic
                     THEN /\ app' = "aborted"
                          /\ UNCHANGED <<map, frames, steps, post_step>>
                     ELSE /\ \E writeable \in ran.maps :
                                /\ post_step' = writeable
                                /\ map' = writeable
                          /\ frames' = frames + 1
                          /\ steps' = steps + StepsPerFrame
                          /\ UNCHANGED app
    /\ UNCHANGED <<maps, loaded, render_data>>
    /\ UNCHANGED <<kind, stepped, last, toggles, held, touched, pulse, records, balanced>>
    /\ UNCHANGED <<parseVars, gateVars>>

\* LogicGateApp::update: one frame
Frame ==
    /\ app = "running"
    /\ frames < MaxFrames
    /\ \E click_position \in Clicks :
          /\ click' = click_position
          /\ LET ran == StepLoop({map}, StepsPerFrame)
             IN IF ran.panic
                THEN /\ app' = "aborted"
                     /\ UNCHANGED <<map, frames, steps, post_step>>
                ELSE \E writeable \in ran.maps :
                        IF render_panics(render_data, writeable)
                        THEN /\ app' = "aborted"
                             /\ UNCHANGED <<map, frames, steps, post_step>>
                        ELSE /\ post_step' = writeable
                             /\ map' = process_input_and_render(render_data, writeable,
                                                                click_position)
                             /\ frames' = frames + 1
                             /\ steps' = steps + StepsPerFrame
                             /\ UNCHANGED app
    /\ UNCHANGED <<maps, loaded, render_data>>
    /\ UNCHANGED <<kind, stepped, last, toggles, held, touched, pulse, records, balanced>>
    /\ UNCHANGED <<parseVars, gateVars>>

AppNext ==
    \/ Startup
    \/ Frame

AppSpec == Init /\ [][AppNext]_vars

\* ------------------------------------------------------------------------
\* Properties of the simulation
\* ------------------------------------------------------------------------

\* the values of the first two inputs and of the first output
InA(self) == self.inputs[NthInput(self, 0)]
InB(self) == self.inputs[NthInput(self, 1)]
OutQ(self) == self.outputs[NthOutput(self, 0)]
OutNotQ(self) == self.outputs[NthOutput(self, 1)]

\* C1: step is two-phase. On every step, for every connection whose end is
\* the end of no other connection, the value at its end in the returned
\* circuit is the value its start had in the circuit before the step.
C1_TwoPhase ==
    [][last' = "step" =>
          \A c \in DOMAIN map.connections \ Colliding(map) :
              connection_point_value(map', map.connections[c].end)
                  = connection_point_value(map, map.connections[c].start)]_vars

\* C1 witness: after a step, a connection that starts at a Nand output shows
\* at its end a value different from the output the gate has just computed
\* (the new output is not visible through the connection yet).
C1_Witness ==
    /\ last = "step"
    /\ \E c \in DOMAIN map.connections \ Colliding(map) :
          LET conn == map.connections[c]
          IN /\ conn.start.type = "GateOutput"
             /\ map.gates[conn.start.gate].kind = "Nand"
             /\ connection_point_value(map, conn.end)
                    # connection_point_value(map, conn.start)

\* C2: LogicGate::step on a Nand gate sets the output to NOT(a AND b) and
\* keeps both input slots (ids and values) and the output id, whatever the
\* output held before.
C2_NandStep ==
    \A g \in DOMAIN map.gates :
        map.gates[g].kind = "Nand" =>
            \A visit \in LogicGate_visits(map.gates[g]) :
                LET before == map.gates[g]
                    after == LogicGate_step(before, visit)
                IN /\ after.kind = "Nand"
                   /\ after.output[2] = ~(before.inputs[1][2] /\ before.inputs[2][2])
                   /\ after.output[1] = before.output[1]
                   /\ after.inputs = before.inputs

\* C2 witness: a Nand gate with both inputs TRUE whose output still holds
\* TRUE (the step changes it to FALSE)
C2_Witness ==
    \E g \in DOMAIN map.gates :
        /\ map.gates[g].kind = "Nand"
        /\ map.gates[g].inputs[1][2] /\ map.gates[g].inputs[2][2]
        /\ map.gates[g].output[2]
        /\ \A visit \in LogicGate_visits(map.gates[g]) :
              ~LogicGate_step(map.gates[g], visit).output[2]

\* C3: and_gate, or_gate and nor_gate, stepped from construction with the
\* inputs held at (a, b), eventually show AND / OR / NOR of (a, b) at q and
\* keep it at every later step.
C3_GatesSettle ==
    <>[](held =>
            /\ kind = "and_gate" => OutQ(map) = (InA(map) /\ InB(map))
            /\ kind = "or_gate" => OutQ(map) = (InA(map) \/ InB(map))
            /\ kind = "nor_gate" => OutQ(map) = ~(InA(map) \/ InB(map)))

\* C3 witness: a nor_gate held at (TRUE, FALSE) since construction that has
\* settled with q FALSE
C3_Witness ==
    /\ kind = "nor_gate" /\ held /\ stepped
    /\ InA(map) /\ ~InB(map)
    /\ Settled(map)
    /\ ~OutQ(map)

\* C4: not_gate, stepped from construction with the input held at v,
\* eventually shows NOT v at q and keeps it at every later step.
C4_NotSettles ==
    <>[]((held /\ kind = "not_gate") => OutQ(map) = ~InA(map))

\* C4 witness: a not_gate held at TRUE since construction that has settled
\* with q FALSE
C4_Witness ==
    /\ kind = "not_gate" /\ held /\ stepped
    /\ InA(map)
    /\ Settled(map)
    /\ ~OutQ(map)

\* C5: after a set pulse on a settled sr_latch whose reset was never TRUE,
\* q is TRUE at every later step while both inputs stay FALSE; after a reset
\* pulse whose set was never TRUE, q is FALSE.
C5_LatchRemembers ==
    kind = "sr_latch" =>
        /\ pulse = "set" => OutQ(map)
        /\ pulse = "reset" => ~OutQ(map)

\* C6 as stated: on every step, for every connection whose end is the output
\* slot of a gate, that slot holds afterwards the value the connection's
\* start had before the step.
C6_OverrideEveryConnection ==
    [][last' = "step" =>
          \A c \in DOMAIN map.connections :
              map.connections[c].end.type = "GateOutput" =>
                  connection_point_value(map', map.connections[c].end)
                      = connection_point_value(map, map.connections[c].start)]_vars

\* C6 amended: the same for every connection whose end is the output slot of
\* a gate and is the end of no other connection.
C6_Override ==
    [][last' = "step" =>
          \A c \in DOMAIN map.connections \ Colliding(map) :
              map.connections[c].end.type = "GateOutput" =>
                  connection_point_value(map', map.connections[c].end)
                      = connection_point_value(map, map.connections[c].start)]_vars

\* C6 witness: after a step, the output slot of a Nand gate whose input slots
\* no connection writes holds a value that is not NOT(in1 AND in2): the value
\* comes from the single connection that ends at the slot.
C6_Witness ==
    /\ last = "step"
    /\ \E c \in DOMAIN map.connections \ Colliding(map) :
          LET end == map.connections[c].end
          IN /\ end.type = "GateOutput"
             /\ map.gates[end.gate].kind = "Nand"
             /\ \A d \in DOMAIN map.connections :
                    ~(map.connections[d].end.type = "GateInput"
                      /\ map.connections[d].end.gate = end.gate)
             /\ map.gates[end.gate].output[2]
                    # ~(map.gates[end.gate].inputs[1][2] /\ map.gates[end.gate].inputs[2][2])

\* ------------------------------------------------------------------------
\* Properties of the parser
\* ------------------------------------------------------------------------

\* C7: in every circuit returned by a successful parse_text, each endpoint of
\* each connection names an input, an output or a gate slot of that same
\* circuit.
C7_NoDanglingReferences ==
    pc = "ok" =>
        \A i \in DOMAIN returned :
            \A c \in DOMAIN returned[i].map.connections :
                /\ returned[i].map.connections[c].start \in Endpoints(returned[i].map)
                /\ returned[i].map.connections[c].end \in Endpoints(returned[i].map)

\* C8: after a successful parse the returned pairs are the blocks of the
\* document, and the pair of a block has a layout exactly when the layout of
\* the block records a position for every gate id of the block's circuit; a
\* layout that is returned misses no gate.
C8_LayoutCompleteness ==
    pc = "ok" =>
        \E order \in Perms(DOMAIN locals.results) :
            /\ DOMAIN returned = DOMAIN order
            /\ \A i \in DOMAIN order :
                  LET circuit == locals.results[order[i]]
                      renderer == locals.renderers[order[i]]
                      covered == \A g \in DOMAIN circuit.gates : g \in DOMAIN renderer.gates
                  IN /\ returned[i].map = circuit
                     /\ (returned[i].layout # None) <=> covered
                     /\ returned[i].layout # None =>
                            /\ returned[i].layout = Some(renderer)
                            /\ \A g \in DOMAIN returned[i].map.gates :
                                   g \in DOMAIN returned[i].layout[1].gates

\* C8 witness: a successful parse returns, without a layout, a block with two
\* gates of which a render directive covers only one.
C8_Witness ==
    /\ pc = "ok"
    /\ \E name \in DOMAIN locals.results :
          /\ \E g \in DOMAIN locals.results[name].gates :
                 g \in DOMAIN locals.renderers[name].gates
          /\ \E g \in DOMAIN locals.results[name].gates :
                 g \notin DOMAIN locals.renderers[name].gates
          /\ \E i \in DOMAIN returned :
                 returned[i] = [map |-> locals.results[name], layout |-> None]

\* C9: a directive line other than define_gate that is read before any
\* define_gate line makes the parse fail with NoCurrentGate carrying the text
\* of that line.
C9_NoCurrentGateBeforeDefine ==
    LET directives == {"inputs", "outputs", "nands", "custom_gates", "connections",
                       "render_nand_gate", "render_custom_gate"}
    IN (~seenDefine /\ \E keyword \in directives : HasPrefix(lastLine, keyword)) =>
           /\ pc = "err"
           /\ error.kind = "NoCurrentGate"
           /\ error.line = lastLine

\* C10: the line number carried by an error is the 0-based index, within the
\* document, of the line that was read last.
C10_LineNumberIsDocumentIndex ==
    (pc = "err" /\ error.kind \in {"NoCurrentGate", "InvalidCustomGate", "UnrecognisedCommand",
                                   "InvalidConnectionPoint", "InvalidRenderLine"}) =>
        error.line_number = raw - 1

\* C11: circuits are returned only when the first non-blank line is
\* `version 0`; a document without a non-blank line fails with
\* MissingVersionLine, any other first non-blank line fails with
\* InvalidVersionLine carrying its text, and in both cases no line was handed
\* to the directive loop.
C11_VersionLine ==
    /\ pc \in {"lines", "ok"} => version_line = Some(<<"version", "0">>)
    /\ (pc = "err" /\ version_line = None) =>
           /\ error = MissingVersionLine
           /\ lastLine = <<>>
           /\ read = ReadNothing /\ locals = ParserLocals
    /\ version_line \notin {None, Some(<<"version", "0">>)} =>
           /\ pc = "err"
           /\ error = InvalidVersionLine(version_line[1])
           /\ read = ReadNothing /\ locals = ParserLocals

\* C11 witness: a document whose first non-blank line names version 1 has
\* failed with InvalidVersionLine.
C11_Witness ==
    /\ pc = "err"
    /\ raw > 1
    /\ version_line = Some(<<"version", "1">>)
    /\ error = InvalidVersionLine(<<"version", "1">>)

\* C12: a successful parse returns one pair for each define_gate line of the
\* document.
C12_OnePairPerDefineGate ==
    pc = "ok" => Len(returned) = read.define_gate

\* C12 as amended: a successful parse returns one pair for each distinct name
\* of the define_gate lines of the document; a define_gate line that repeats
\* a name adds no pair.
C12_OnePairPerName ==
    pc = "ok" => Len(returned) = Cardinality(read.names)

\* C12 witness: a successful parse of a document with more define_gate lines
\* than names returns two pairs.
C12_Witness ==
    /\ pc = "ok"
    /\ read.define_gate > Cardinality(read.names)
    /\ Len(returned) = 2

\* C13: a successful parse of a document with one define_gate line returns
\* one pair, whose circuit has one input per name of the inputs lines, one
\* output per name of the outputs lines, one gate per name of the nands and
\* custom_gates lines and one connection per entry of the connections lines;
\* when the gate names are distinct and each has a render line, the layout
\* is present.
C13_SingleBlock ==
    (pc = "ok" /\ read.define_gate = 1) =>
        /\ Len(returned) = 1
        /\ Cardinality(DOMAIN returned[1].map.inputs) = read.inputs
        /\ Cardinality(DOMAIN returned[1].map.outputs) = read.outputs
        /\ Cardinality(DOMAIN returned[1].map.gates) = read.gates
        /\ Cardinality(DOMAIN returned[1].map.connections) = read.connections
        /\ (read.gates = Cardinality(read.gate_names) /\ read.gate_names \subseteq read.rendered)
               => returned[1].layout # None

\* C13 witness: one block with two inputs, a NAND gate with its render line
\* and a connection has been returned with its layout.
C13_Witness ==
    /\ pc = "ok"
    /\ read.define_gate = 1
    /\ read.inputs = 2 /\ read.gates = 1 /\ read.connections = 1
    /\ read.gate_names \subseteq read.rendered
    /\ Len(returned) = 1
    /\ returned[1].layout # None
    /\ Cardinality(DOMAIN returned[1].map.inputs) = 2
    /\ Cardinality(DOMAIN returned[1].map.gates) = 1
    /\ Cardinality(DOMAIN returned[1].map.connections) = 1

\* C14: a custom_gates line that did not fail names, in each of its entries,
\* a source defined by a define_gate line before the current block, never the
\* block being defined.
C14_OnlyEarlierDefinitions ==
    (pc \in {"lines", "ok"} /\ HasPrefix(lastLine, "custom_gates")) =>
        \A entry \in Range(SplitOn(Operands(lastLine), ",")) :
            /\ SplitOn(entry, "=")[2] \in read.names
            /\ Some(SplitOn(entry, "=")[2]) # locals.current

\* C15: when a connections line with one `start => end` entry is read, an
\* endpoint text that the name tables do not back (1 token that is no bound
\* input or output name; 3 tokens with an unbound gate name, a keyword other
\* than in/out, an index that is no number or an index not below the gate's
\* input or output count; any other token count) makes the parse fail with
\* InvalidConnectionPoint carrying the first such text, and otherwise the
\* connection created joins the input, the output or the Nth slot of the
\* creation record that the texts name.
C15_EndpointResolution ==
    [][(pc = "lines" /\ raw' = raw + 1 /\ HasPrefix(lastLine', "connections")
        /\ Len(SplitOn(Operands(lastLine'), ",")) = 1
        /\ Len(SplitOn(Operands(lastLine'), "=>")) = 2) =>
       LET parts == SplitOn(Operands(lastLine'), "=>")
           gates == [name \in (DOMAIN locals.nands) \cup (DOMAIN locals.custom_gates) |->
                        IF name \in DOMAIN locals.nands
                        THEN locals.nands[name] ELSE locals.custom_gates[name]]
           slots(text) == IF text[2] = "in" THEN gates[<<text[1]>>].inputs
                          ELSE gates[<<text[1]>>].outputs
           backed(text) ==
               \/ /\ Len(text) = 1
                  /\ <<text[1]>> \in (DOMAIN locals.inputs) \cup (DOMAIN locals.outputs)
               \/ /\ Len(text) = 3
                  /\ <<text[1]>> \in DOMAIN gates
                  /\ text[2] \in {"in", "out"}
                  /\ text[3] \in NumberTokens
                  /\ ParseUsize(text[3])[2] < Len(slots(text))
           point(text) ==
               IF Len(text) = 1
               THEN IF <<text[1]>> \in DOMAIN locals.inputs
                    THEN Input(locals.inputs[<<text[1]>>])
                    ELSE Output(locals.outputs[<<text[1]>>])
               ELSE IF text[2] = "in"
                    THEN GateInput(gates[<<text[1]>>].gate_id,
                                   slots(text)[ParseUsize(text[3])[2] + 1])
                    ELSE GateOutput(gates[<<text[1]>>].gate_id,
                                    slots(text)[ParseUsize(text[3])[2] + 1])
       IN /\ ~backed(parts[1]) =>
                 /\ pc' = "err"
                 /\ error'.kind = "InvalidConnectionPoint"
                 /\ error'.text = parts[1]
          /\ (backed(parts[1]) /\ ~backed(parts[2])) =>
                 /\ pc' = "err"
                 /\ error'.kind = "InvalidConnectionPoint"
                 /\ error'.text = parts[2]
          /\ (backed(parts[1]) /\ backed(parts[2]) /\ locals.current # None) =>
                 /\ pc' = "lines"
                 /\ LET before == locals.results[locals.current[1]]
                        after == locals'.results[locals.current[1]]
                    IN /\ DOMAIN after.connections
                              = (DOMAIN before.connections) \cup {before.id_generator}
                       /\ after.connections[before.id_generator]
                              = Connection(point(parts[1]), point(parts[2]))
      ]_vars

\* C15 witness: a connections line between a bound input name and slot 0 of
\* a bound NAND gate has been read and the circuit has the connection.
C15_Witness ==
    /\ pc = "lines"
    /\ lastLine = <<"connections", "x", "=>", "n", "in", "0">>
    /\ locals.current # None
    /\ \E c \in DOMAIN locals.results[locals.current[1]].connections :
          LET connection == locals.results[locals.current[1]].connections[c]
          IN /\ connection.start.type = "Input"
             /\ connection.end.type = "GateInput"

\* C16: no line clears one of the four name tables: a define_gate line leaves
\* them exactly as they are, every other accepted line keeps every bound name
\* bound, and a name bound (for the first time or again) by an inputs,
\* outputs, nands or custom_gates line then names the element that line
\* created in the current circuit.
C16_TablesAreDocumentWide ==
    [][(pc = "lines" /\ pc' = "lines") =>
       /\ DOMAIN locals.inputs \subseteq DOMAIN locals'.inputs
       /\ DOMAIN locals.outputs \subseteq DOMAIN locals'.outputs
       /\ DOMAIN locals.nands \subseteq DOMAIN locals'.nands
       /\ DOMAIN locals.custom_gates \subseteq DOMAIN locals'.custom_gates
       /\ HasPrefix(lastLine', "define_gate") =>
              /\ locals'.inputs = locals.inputs
              /\ locals'.outputs = locals.outputs
              /\ locals'.nands = locals.nands
              /\ locals'.custom_gates = locals.custom_gates
       /\ (HasPrefix(lastLine', "inputs") /\ raw' = raw + 1) =>
              \A name \in Range(Operands(lastLine')) :
                  /\ locals'.inputs[<<name>>]
                         \in DOMAIN locals'.results[locals.current[1]].inputs
                  /\ locals'.inputs[<<name>>]
                         \notin DOMAIN locals.results[locals.current[1]].inputs
       /\ (HasPrefix(lastLine', "outputs") /\ raw' = raw + 1) =>
              \A name \in Range(Operands(lastLine')) :
                  /\ locals'.outputs[<<name>>]
                         \in DOMAIN locals'.results[locals.current[1]].outputs
                  /\ locals'.outputs[<<name>>]
                         \notin DOMAIN locals.results[locals.current[1]].outputs
       /\ (HasPrefix(lastLine', "nands") /\ raw' = raw + 1) =>
              \A name \in Range(Operands(lastLine')) :
                  /\ locals'.nands[<<name>>].gate_id
                         \in DOMAIN locals'.results[locals.current[1]].gates
                  /\ locals'.nands[<<name>>].gate_id
                         \notin DOMAIN locals.results[locals.current[1]].gates
       /\ (HasPrefix(lastLine', "custom_gates") /\ raw' = raw + 1) =>
              \A definition \in Range(SplitOn(Operands(lastLine'), ",")) :
                  LET name == SplitOn(definition, "=")[1]
                  IN /\ locals'.custom_gates[name].gate_id
                            \in DOMAIN locals'.results[locals.current[1]].gates
                     /\ locals'.custom_gates[name].gate_id
                            \notin DOMAIN locals.results[locals.current[1]].gates
                     /\ locals'.results[locals.current[1]].gates[
                            locals'.custom_gates[name].gate_id].kind = "Custom"
      ]_vars

\* C16 witness: in a second block that declares no input, a connections line
\* has resolved the input name bound in the first block.
C16_Witness ==
    /\ pc = "lines"
    /\ Cardinality(read.names) = 2
    /\ locals.current # None
    /\ HasPrefix(lastLine, "connections")
    /\ <<"x">> \in DOMAIN locals.inputs
    /\ DOMAIN locals.results[locals.current[1]].inputs = {}
    /\ \E c \in DOMAIN locals.results[locals.current[1]].connections :
          locals.results[locals.current[1]].connections[c].start = Input(locals.inputs[<<"x">>])

\* ------------------------------------------------------------------------
\* Properties of the application
\* ------------------------------------------------------------------------

\* C17: after a frame, the input at position i of the layout's input list,
\* whose port centre is (30, 30 + 70 i), has the negation of its post-step
\* value when the frame's click is at squared distance at most 20 * 20 from
\* the centre, and its post-step value when the click is farther or when the
\* frame had no click.
C17_ClickHitTest ==
    (app = "running" /\ frames > 0) =>
        \A k \in DOMAIN render_data.inputs :
            LET id == render_data.inputs[k]
                dx == click[1].x - 30
                dy == click[1].y - (30 + 70 * (k - 1))
            IN /\ click = None => map.inputs[id] = post_step.inputs[id]
               /\ (click # None /\ dx * dx + dy * dy <= 20 * 20) =>
                      map.inputs[id] = ~post_step.inputs[id]
               /\ (click # None /\ dx * dx + dy * dy > 20 * 20) =>
                      map.inputs[id] = post_step.inputs[id]

\* C17 witness: a click at distance exactly 20 from the centre of the first
\* input port has toggled that input.
C17_Witness ==
    /\ app = "running"
    /\ frames > 0
    /\ click = Some(Pos2(30, 50))
    /\ Len(render_data.inputs) = 2
    /\ map.inputs[render_data.inputs[1]] # post_step.inputs[render_data.inputs[1]]
    /\ map.inputs[render_data.inputs[2]] = post_step.inputs[render_data.inputs[2]]

\* C18: the circuit after a frame differs from the post-step circuit in the
\* value of at most one input and in nothing else, and not at all when the
\* frame had no click.
C18_RenderTogglesAtMostOneInput ==
    (app = "running" /\ frames > 0) =>
        /\ DOMAIN map.inputs = DOMAIN post_step.inputs
        /\ [map EXCEPT !.inputs = post_step.inputs] = post_step
        /\ Cardinality({id \in DOMAIN map.inputs : map.inputs[id] # post_step.inputs[id]}) <= 1
        /\ click = None => map = post_step

\* C18 witness: a click has toggled one of the two inputs of a circuit that
\* has an output, a gate and connections.
C18_Witness ==
    /\ app = "running"
    /\ frames > 0
    /\ click # None
    /\ Cardinality(DOMAIN map.inputs) = 2
    /\ Cardinality({id \in DOMAIN map.inputs : map.inputs[id] # post_step.inputs[id]}) = 1
    /\ DOMAIN map.outputs # {} /\ DOMAIN map.gates # {} /\ DOMAIN map.connections # {}

\* C19: a frame makes exactly 10 calls of step(), on the circuit the previous
\* frame left (with the input its click toggled), and its own click changes
\* inputs of the post-step circuit only; step() is called in frames only, so
\* the number of calls is 10 times the number of frames.
C19_TenStepsThenClick ==
    /\ [](steps = 10 * frames)
    /\ [][/\ steps' # steps => frames' = frames + 1
          /\ frames' = frames + 1 =>
                /\ steps' = steps + 10
                /\ post_step' \in HoldFor(map, 10)
                /\ map'.gates = post_step'.gates
                /\ map'.outputs = post_step'.outputs
         ]_vars

\* C19 witness: after two frames and 20 steps, the gate of the two-input
\* circuit has an input slot that is true: the input toggled by the click of
\* the first frame reached it during the steps of the second frame.
C19_Witness ==
    /\ app = "running"
    /\ frames = 2 /\ steps = 20
    /\ Cardinality(DOMAIN map.inputs) = 2
    /\ \E g \in DOMAIN post_step.gates :
          /\ post_step.gates[g].kind = "Nand"
          /\ post_step.gates[g].inputs[1][2] \/ post_step.gates[g].inputs[2][2]

\* C20: once the application has started, the pair it selected is the pair
\* with the greatest position in the loaded list among those with a layout,
\* and it shows that pair's circuit with that pair's layout; when no loaded
\* pair has a layout the process has aborted without a circuit.
C20_StartupSelectsLastRenderable ==
    /\ [](app # "off" =>
            LET renderable == {i \in DOMAIN maps : maps[i].layout # None}
            IN IF renderable = {}
               THEN app = "aborted" /\ loaded = None /\ frames = 0 /\ map = empty
               ELSE /\ \E i \in renderable :
                          /\ \A j \in renderable : j <= i
                          /\ loaded = Some(maps[i])
                    /\ render_data = loaded[1].layout[1])
    /\ [][app = "off" =>
            /\ app' = "running" <=> (\E i \in DOMAIN maps' : maps'[i].layout # None)
            /\ app' = "running" => map' = loaded'[1].map
         ]_vars

\* C20 witness: of two different loaded pairs that both have a layout, the
\* second is shown.
C20_Witness ==
    /\ app = "running"
    /\ Len(maps) = 2
    /\ maps[1].layout # None /\ maps[2].layout # None
    /\ maps[1] # maps[2]
    /\ loaded = Some(maps[2])
    /\ map = maps[2].map

\* C21: the k-th call (counting from 0) of generate() on one IdGenerator
\* returns Id k, so the ids returned start at 0, increase strictly and are
\* pairwise distinct.
C21_GenerateCountsFromZero ==
    /\ \A k \in 0..(Len(issued) - 1) : issued[k + 1] = k
    /\ \A i, j \in DOMAIN issued : i < j => issued[i] < issued[j]
    /\ Cardinality(Range(issued)) = Len(issued)

\* C21 witness: generate() has been called at least three times and its third
\* call returned Id 2.
C21_Witness == Len(issued) >= 3 /\ issued[3] = 2

\* C22: get_input and get_output return the value of the slot when the id
\* belongs to the gate, and return None, without failing, when it does not,
\* for a Nand gate and for a Custom gate.
C22_GetOutsideIsNone ==
    /\ outcome.op = "get_input" =>
          IF outcome.id \in gate_input_ids(gate)
          THEN outcome.ret = LogicGate_get_input(gate, outcome.id) /\ outcome.ret[1] = "Some"
          ELSE outcome.ret = <<"None">>
    /\ outcome.op = "get_output" =>
          IF outcome.id \in gate_output_ids(gate)
          THEN outcome.ret = LogicGate_get_output(gate, outcome.id) /\ outcome.ret[1] = "Some"
          ELSE outcome.ret = <<"None">>

\* C23: set_input and set_output called with an id that does not belong to
\* the gate change nothing: the slot values, the sets of input and output
\* ids and input_count / output_count are as before the call.
C23_SetOutsideIsNoOp ==
    [][/\ (outcome'.op = "set_input" /\ outcome'.id \notin gate_input_ids(gate)) =>
              /\ gate' = gate
              /\ LogicGate_input_count(gate') = LogicGate_input_count(gate)
       /\ (outcome'.op = "set_output" /\ outcome'.id \notin gate_output_ids(gate)) =>
              /\ gate' = gate
              /\ LogicGate_output_count(gate') = LogicGate_output_count(gate)
      ]_vars

\* C24: get_input_index and get_output_index abort, and return no index,
\* when the id is not one of the gate's input (respectively output) ids,
\* for a Nand gate and for a Custom gate.
C24_IndexOutsideFails ==
    /\ (outcome.op = "get_input_index" /\ outcome.id \notin gate_input_ids(gate)) =>
          outcome.ret = Panic
    /\ (outcome.op = "get_output_index" /\ outcome.id \notin gate_output_ids(gate)) =>
          outcome.ret = Panic

\* C25: for every gate added with create_nand_gate or create_custom_gate,
\* with creation record r, get_input_index of the id in r.input_connection(k)
\* is k for every k < r.input_count(), and get_output_index of the id in
\* r.output_connection(k) is k for every k < r.output_count(), in the circuit
\* as built and in every circuit reached from it by stepping.
C25_PositionalRoundTrip ==
    \A g \in DOMAIN records :
        /\ g \in DOMAIN map.gates
        /\ \A k \in 0..(info_input_count(records[g]) - 1) :
              /\ ~LogicGate_get_input_index_panics(map.gates[g], input_connection(records[g], k).id)
              /\ LogicGate_get_input_index(map.gates[g], input_connection(records[g], k).id) = k
        /\ \A k \in 0..(info_output_count(records[g]) - 1) :
              /\ ~LogicGate_get_output_index_panics(map.gates[g], output_connection(records[g], k).id)
              /\ LogicGate_get_output_index(map.gates[g], output_connection(records[g], k).id) = k

\* C26: when two or more connections have the same end, the value at that
\* end after step() is the pre-step value of the start of one of them; it is
\* the pre-step value of the end itself, or a value computed by a gate, only
\* when one of those connections supplies that value.
C26_CollidingEndTakesOneStart ==
    [][last' = "step" =>
          \A c \in Colliding(map) :
              connection_point_value(map', map.connections[c].end) \in
                  {connection_point_value(map, map.connections[d].start) :
                      d \in {x \in Colliding(map) :
                                map.connections[x].end = map.connections[c].end}}]_vars

\* C26 witness: after a step, two connections with the same end whose starts
\* are written by no connection and hold different values: the end holds the
\* value of one of the two starts.
C26_Witness ==
    /\ last = "step"
    /\ \E c, d \in DOMAIN map.connections :
          /\ c # d
          /\ map.connections[c].end = map.connections[d].end
          /\ \A x \in DOMAIN map.connections :
                map.connections[x].end \notin {map.connections[c].start, map.connections[d].start}
          /\ connection_point_value(map, map.connections[c].start)
                # connection_point_value(map, map.connections[d].start)
          /\ connection_point_value(map, map.connections[c].end)
                = connection_point_value(map, map.connections[c].start)

\* C27: over one step(), an endpoint that is the end of no connection behaves
\* as follows: a circuit input or output keeps its value (hence over any
\* number of steps), an input slot of a Nand gate keeps its value, and the
\* output slot of a Nand gate becomes NOT(in1 AND in2) of the gate's pre-step
\* input values.
C27_UntargetedEndpoints ==
    [][last' = "step" =>
          LET ends == {map.connections[c].end : c \in DOMAIN map.connections}
          IN /\ \A i \in DOMAIN map.inputs :
                    Input(i) \notin ends => map'.inputs[i] = map.inputs[i]
             /\ \A o \in DOMAIN map.outputs :
                    Output(o) \notin ends => map'.outputs[o] = map.outputs[o]
             /\ \A g \in DOMAIN map.gates :
                    map.gates[g].kind = "Nand" =>
                        /\ \A k \in 1..2 :
                              GateInput(g, map.gates[g].inputs[k][1]) \notin ends =>
                                  map'.gates[g].inputs[k] = map.gates[g].inputs[k]
                        /\ GateOutput(g, map.gates[g].output[1]) \notin ends =>
                              map'.gates[g].output[2] =
                                  ~(map.gates[g].inputs[1][2] /\ map.gates[g].inputs[2][2])
      ]_vars

\* C27 witness: after a step, a circuit input that no connection writes holds
\* TRUE, and a Nand gate whose output slot no connection writes holds FALSE
\* there: the gate computed it from two TRUE inputs.
C27_Witness ==
    /\ last = "step"
    /\ LET ends == {map.connections[c].end : c \in DOMAIN map.connections}
       IN /\ \E i \in DOMAIN map.inputs : Input(i) \notin ends /\ map.inputs[i]
          /\ \E g \in DOMAIN map.gates :
                /\ map.gates[g].kind = "Nand"
                /\ GateOutput(g, map.gates[g].output[1]) \notin ends
                /\ ~map.gates[g].output[2]
                /\ map.gates[g].inputs[1][2] /\ map.gates[g].inputs[2][2]

\* C28: every layout that a successful parse returns as present is keyed by
\* the ids of the circuit it is paired with: each gate id of the layout is a
\* gate of that circuit, and the layout's input and output lists hold exactly
\* the circuit's input and output ids.
C28_LayoutKeyedByOwnCircuit ==
    pc = "ok" =>
        \A i \in DOMAIN returned :
            returned[i].layout # None =>
                LET layout == returned[i].layout[1]
                    circuit == returned[i].map
                IN /\ DOMAIN layout.gates \subseteq DOMAIN circuit.gates
                   /\ Range(layout.inputs) = DOMAIN circuit.inputs
                   /\ Len(layout.inputs) = Cardinality(DOMAIN circuit.inputs)
                   /\ Range(layout.outputs) = DOMAIN circuit.outputs
                   /\ Len(layout.outputs) = Cardinality(DOMAIN circuit.outputs)

\* C29: bounded propagation delay. From every reachable state of a standard
\* combinational gate, after D more steps with the inputs left as they are,
\* q is the truth-table value of the inputs, with D = 3 for not_gate, 5 for
\* and_gate, 7 for or_gate and 11 for nor_gate. (Every state D or more steps
\* later is again a reachable state with the same inputs, so q stays there.)
C29_BoundedPropagationDelay ==
    /\ kind = "not_gate" => \A m \in HoldFor(map, 3) : OutQ(m) = ~InA(map)
    /\ kind = "and_gate" => \A m \in HoldFor(map, 5) : OutQ(m) = (InA(map) /\ InB(map))
    /\ kind = "or_gate" => \A m \in HoldFor(map, 7) : OutQ(m) = (InA(map) \/ InB(map))
    /\ kind = "nor_gate" => \A m \in HoldFor(map, 11) : OutQ(m) = ~(InA(map) \/ InB(map))

\* C29 witness: a nor_gate, after a click, in a state from which q is still
\* wrong after 10 steps (one frame) and right after 11.
C29_Witness ==
    /\ kind = "nor_gate" /\ toggles > 0
    /\ \A m \in HoldFor(map, 10) : OutQ(m) # ~(InA(map) \/ InB(map))
    /\ \A m \in HoldFor(map, 11) : OutQ(m) = ~(InA(map) \/ InB(map))

\* C30: d_latch is transparent while enabled. The inputs are clicked a
\* bounded number of times at any moments, so they are eventually held for
\* ever: from then on, if enable (the second input) is TRUE, q eventually
\* equals data (the first input) and keeps that value.
C30_LatchTransparent ==
    <>[]((kind = "d_latch" /\ InB(map)) => OutQ(map) = InA(map))

\* C30 witness: a d_latch whose inputs were clicked twice, with enable and
\* data TRUE, that has settled with q TRUE.
C30_Witness ==
    /\ kind = "d_latch" /\ toggles >= 2
    /\ InB(map) /\ InA(map)
    /\ Settled(map)
    /\ OutQ(map)

\* C31: in every state of an sr_latch in which every call of step() so far
\* found set and reset with one value (both FALSE all along, or both clicked
\* between two steps), the outputs q and not_q are equal.
C31_MirroredOutputs ==
    (kind = "sr_latch" /\ balanced) => OutQ(map) = OutNotQ(map)

\* an sr_latch that was stepped, had both inputs clicked after that, was
\* stepped again with both TRUE, and shows q and not_q both TRUE
C31_Witness ==
    /\ kind = "sr_latch"
    /\ balanced
    /\ last = "step"
    /\ ~held
    /\ InA(map) /\ InB(map)
    /\ OutQ(map) /\ OutNotQ(map)

\* C32: on every step of a circuit whose connections all start and end at
\* connection points that exist (recursively inside custom gates), the
\* returned circuit has the same input, output, middle-signal, gate and
\* connection ids, the same connections, the same gate slot ids and the same
\* allocator counter, and its connection points still exist, so the same
\* holds after any number of steps.
C32_StepKeepsIdentifiers ==
    [][(last' = "step" /\ EndpointsExist(map)) =>
          /\ Identifiers(map') = Identifiers(map)
          /\ EndpointsExist(map')]_vars

\* a built circuit that was stepped, with a Nand gate and a custom gate,
\* one connection ending at an input of the custom gate and one at an
\* output slot of a gate, all connection points existing
C32_Witness ==
    /\ kind = "built" /\ last = "step"
    /\ EndpointsExist(map)
    /\ \E g \in DOMAIN map.gates : map.gates[g].kind = "Nand"
    /\ \E c \in DOMAIN map.connections :
          /\ map.connections[c].end.type = "GateInput"
          /\ map.gates[map.connections[c].end.gate].kind = "Custom"
    /\ \E c \in DOMAIN map.connections : map.connections[c].end.type = "GateOutput"

\* the connections of a circuit whose end is an input or an output of a
\* custom gate
CustomGateEnds(self) ==
    {c \in DOMAIN self.connections :
        /\ self.connections[c].end.type \in {"GateInput", "GateOutput"}
        /\ self.connections[c].end.gate \in DOMAIN self.gates
        /\ self.gates[self.connections[c].end.gate].kind = "Custom"}

\* C33: on every step of a circuit with a connection whose end is
\* GateInput{g, i} or GateOutput{g, o} of a custom gate g, every gate of the
\* returned circuit is its own step() with only the connections that end at
\* that very gate written into it (so a write into g reaches no other gate,
\* not even another instance of the same definition with the same inner
\* ids), and every top-level input or output at which no connection ends
\* keeps its value, whatever ids are written inside the gates.
C33_CustomGatesIsolated ==
    [][(last' = "step" /\ CustomGateEnds(map) # {}) =>
          /\ DOMAIN map'.gates = DOMAIN map.gates
          /\ \E visit \in Visits(map) :
                \A h \in DOMAIN map.gates :
                    map'.gates[h] =
                        GateAfterStep(map, h, LogicGate_step(map.gates[h], visit.gates[h]),
                                      visit.order)
          /\ \A i \in DOMAIN map.inputs :
                (\A c \in DOMAIN map.connections : map.connections[c].end # Input(i))
                    => (i \in DOMAIN map'.inputs /\ map'.inputs[i] = map.inputs[i])
          /\ \A o \in DOMAIN map.outputs :
                (\A c \in DOMAIN map.connections : map.connections[c].end # Output(o))
                    => (o \in DOMAIN map'.outputs /\ map'.outputs[o] = map.outputs[o])]_vars

\* a stepped circuit with two custom gates g and h whose inner circuits have
\* the same ids, and a connection ending at GateInput{g, i}: input i of g's
\* inner circuit is TRUE while input i of h's inner circuit and the top-level
\* input with the same id i are FALSE
C33_Witness ==
    /\ last = "step"
    /\ \E c \in CustomGateEnds(map) :
          \E h \in DOMAIN map.gates :
              LET end == map.connections[c].end
              IN /\ end.type = "GateInput"
                 /\ h # end.gate
                 /\ map.gates[h].kind = "Custom"
                 /\ Identifiers(map.gates[h].map) = Identifiers(map.gates[end.gate].map)
                 /\ map.gates[end.gate].map.inputs[end.id]
                 /\ ~map.gates[h].map.inputs[end.id]
                 /\ end.id \in DOMAIN map.inputs
                 /\ ~map.inputs[end.id]

====
